---- MODULE Spec2Model ----
(***************************************************************************)
(* workflowo: a declarative job runner.                                    *)
(*                                                                         *)
(* Part I   the document resolver (src/src/yaml_parser/render.rs): the     *)
(*          depth-first pass that replaces the tagged nodes !Input,        *)
(*          !HiddenInput, !StrF and !Id of a serde_yaml value tree.        *)
(* Part II  the task model (src/src/tasks/mod.rs): Job::execute and        *)
(*          OSDependent::execute over their children.                      *)
(* Part III the leaf tasks, each run on its own: local shell commands      *)
(*          (src/src/tasks/shell.rs), SSH command batches, SFTP downloads  *)
(*          and the descriptions of remote tasks (src/src/tasks/ssh.rs),   *)
(*          with their parsers (src/src/yaml_parser/mod.rs), and parallel  *)
(*          groups.                                                        *)
(*                                                                         *)
(* Strings are sequences of one-character strings, so that concatenation   *)
(* and the trimming of line breaks are computed as the code computes them. *)
(***************************************************************************)
EXTENDS Integers, Sequences, FiniteSets, TLC

VARIABLES doc, stdin, phase, res, job, host, stack, trace, proc, result,
          shell, ssh, par, shown, sftp, drv

vars == <<doc, stdin, phase, res, job, host, stack, trace, proc, result,
          shell, ssh, par, shown, sftp, drv>>
renderVars == <<doc, stdin, phase, res>>
execVars == <<job, host, stack, trace, proc, result>>
\* one record for each kind of leaf task that is run on its own, see Part III
taskVars == <<shell, ssh, par, shown, sftp, drv>>
\* a task that is not part of the run
Idle == [pc |-> "idle"]
TasksIdle ==
    shell = Idle /\ ssh = Idle /\ par = Idle /\ shown = Idle /\ sftp = Idle /\ drv = Idle

(***************************************************************************)
(* Bounds of the model.                                                    *)
(***************************************************************************)
\* nesting levels of wrappers applied around the atoms of a document
MaxDepth == 1
\* entries of the top-level sequence or mapping of a document
MaxItems == 2
\* !Input / !HiddenInput tags of one document (lines the operator types)
MaxReads == 2
\* characters of one line of interactive input
MaxLineLen == 2
\* children of the job that is run
MaxChildren == 3

(***************************************************************************)
(* serde_yaml::Value.  Every node is a record of the same shape:           *)
(*   k    the variant: "Null", "Number", "String", "Sequence", "Mapping",  *)
(*        "Tagged"                                                         *)
(*   s    the characters of a String                                       *)
(*   c    the items of a Sequence, the values of a Mapping (in document    *)
(*        order), or the one inner value of a Tagged node                  *)
(*   keys the keys of a Mapping, keys[i] being the key of c[i]             *)
(*   tag  the tag of a Tagged node, written as Tag's to_string() gives it  *)
(***************************************************************************)
Null == [k |-> "Null", s |-> <<>>, c |-> <<>>, keys |-> <<>>, tag |-> ""]
Num == [k |-> "Number", s |-> <<>>, c |-> <<>>, keys |-> <<>>, tag |-> ""]
Str(chars) == [k |-> "String", s |-> chars, c |-> <<>>, keys |-> <<>>, tag |-> ""]
SeqV(items) == [k |-> "Sequence", s |-> <<>>, c |-> items, keys |-> <<>>, tag |-> ""]
MapV(ks, vs) == [k |-> "Mapping", s |-> <<>>, c |-> vs, keys |-> ks, tag |-> ""]
Tagged(t, inner) == [k |-> "Tagged", s |-> <<>>, c |-> <<inner>>, keys |-> <<>>, tag |-> t]

\* Value::untag_ref: the value under any number of tags
RECURSIVE untag_ref(_)
untag_ref(v) == IF v.k = "Tagged" THEN untag_ref(v.c[1]) ELSE v

\* Value::is_string, is_sequence, is_mapping and as_str look through tags
is_string(v) == untag_ref(v).k = "String"
is_sequence(v) == untag_ref(v).k = "Sequence"
is_mapping(v) == untag_ref(v).k = "Mapping"
as_str(v) == untag_ref(v).s

\* the keys the resolver looks up
KeyPrompt == Str(<<"p", "r", "o", "m", "p", "t">>)
KeyDefault == Str(<<"d", "e", "f", "a", "u", "l", "t">>)
KeyId == Str(<<"i", "d">>)
KeyValue == Str(<<"v", "a", "l", "u", "e">>)

\* get_entry: the value stored under `key`, if any ([some, v])
HasEntry(map, key) == \E i \in 1..Len(map.keys) : map.keys[i] = key
EntryIndex(map, key) == CHOOSE i \in 1..Len(map.keys) : map.keys[i] = key
get_entry(map, key) ==
    IF HasEntry(map, key)
    THEN [some |-> TRUE, v |-> map.c[EntryIndex(map, key)]]
    ELSE [some |-> FALSE, v |-> Null]

(***************************************************************************)
(* The resolver's context: the Id cache (_ids), the lines still to be read *)
(* from the operator, and the log of what the pass did.                    *)
(*   ids  sequence of [id, val]: the entries of the HashMap                *)
(*   inp  the lines not yet read; a line is [ok |-> TRUE, line |-> chars], *)
(*        a failing read is [ok |-> FALSE, line |-> <<>>]                  *)
(*   log  the events of the pass, see Event                                *)
(***************************************************************************)
Cx(ids, inp, log) == [ids |-> ids, inp |-> inp, log |-> log]

\* One event of the pass.  path is the position of the tagged node in the
\* document (child indices from the root; the inner value of a tag is child 1).
\*   "enter"   a tagged node is reached           tag, tv = its payload
\*   "payload" an input tag's payload is resolved tag, tv = the resolved payload
\*   "print"   a prompt is written to the screen  text = the prompt
\*   "read"    a line is read                     flag = hidden, text = the line
\*   "lookup"  an !Id consults the cache          text = id, flag = hit
\*   "insert"  an !Id stores a value              text = id, tv = the value
\*   "ret"     a tagged node is replaced          tag, tv = the resolved value
Event(ev, path, tag, text, flag, tv) ==
    [ev |-> ev, path |-> path, tag |-> tag, text |-> text, flag |-> flag, tv |-> tv]

Logged(cx, e) == [cx EXCEPT !.log = Append(cx.log, e)]

\* a cache that never reports an entry
contains_key_never(ids, id) == FALSE

\* HashMap::contains_key, get, insert
contains_key(ids, id) == \E i \in 1..Len(ids) : ids[i].id = id
ids_get(ids, id) == ids[CHOOSE i \in 1..Len(ids) : ids[i].id = id].val
\* a cache that keeps the entry it has
ids_insert_keeps(ids, id, val) ==
    IF \E i \in 1..Len(ids) : ids[i].id = id THEN ids
    ELSE Append(ids, [id |-> id, val |-> val])

ids_insert(ids, id, val) ==
    IF \E i \in 1..Len(ids) : ids[i].id = id
    THEN [i \in 1..Len(ids) |-> IF ids[i].id = id THEN [id |-> id, val |-> val] ELSE ids[i]]
    ELSE Append(ids, [id |-> id, val |-> val])

\* dropping one line break only: `if` in place of `while`
remove_one_linebreak(input) ==
    IF Len(input) > 0 /\ input[Len(input)] \in {"\n", "\r"}
    THEN SubSeq(input, 1, Len(input) - 1)
    ELSE input

\* the loop at render.rs:127-129: drop line breaks from the end, one at a time
RECURSIVE remove_linebreaks(_)
remove_linebreaks(input) ==
    IF Len(input) > 0 /\ input[Len(input)] \in {"\n", "\r"}
    THEN remove_linebreaks(SubSeq(input, 1, Len(input) - 1))
    ELSE input

\* render.rs:131-133: the default replaces an empty input
substitute_default(default, input) ==
    IF default.some /\ input = <<>> THEN default.s ELSE input

NoDefault == [some |-> FALSE, s |-> <<>>]
SomeDefault(chars) == [some |-> TRUE, s |-> chars]

\* an arity check that lets a third argument pass
wrong_arity_loose(len) == len = 0

\* render.rs:65: `seq.len() != 2 && seq.len() != 1`
wrong_arity(len) == len # 2 /\ len # 1

\* render.rs:58-107: the prompt and the default of an input payload, or the error.
\* [st, prompt, default]; st = "Panic" is the panic! of the last match arm.
input_arguments(tag_value) ==
    IF ~is_string(tag_value) /\ ~is_sequence(tag_value) /\ ~is_mapping(tag_value)
    THEN [st |-> "Err", prompt |-> <<>>, default |-> NoDefault]
    ELSE CASE tag_value.k = "String" ->
                [st |-> "Ok", prompt |-> tag_value.s, default |-> NoDefault]
           [] tag_value.k = "Sequence" ->
                LET seq == tag_value.c IN
                IF wrong_arity(Len(seq))
                THEN [st |-> "Err", prompt |-> <<>>, default |-> NoDefault]
                ELSE IF ~is_string(seq[1])
                THEN [st |-> "Err", prompt |-> <<>>, default |-> NoDefault]
                ELSE IF Len(seq) = 2 /\ ~is_string(seq[2])
                THEN [st |-> "Err", prompt |-> <<>>, default |-> NoDefault]
                ELSE [st |-> "Ok", prompt |-> as_str(seq[1]),
                      default |-> IF Len(seq) = 2 THEN SomeDefault(as_str(seq[2]))
                                                  ELSE NoDefault]
           [] tag_value.k = "Mapping" ->
                LET p == get_entry(tag_value, KeyPrompt)
                    d == get_entry(tag_value, KeyDefault) IN
                IF ~p.some \/ p.v.k # "String"
                THEN [st |-> "Err", prompt |-> <<>>, default |-> NoDefault]
                ELSE IF d.some /\ d.v.k # "String"
                THEN [st |-> "Err", prompt |-> <<>>, default |-> NoDefault]
                ELSE [st |-> "Ok", prompt |-> p.v.s,
                      default |-> IF d.some THEN SomeDefault(d.v.s) ELSE NoDefault]
           [] OTHER -> [st |-> "Panic", prompt |-> <<>>, default |-> NoDefault]

\* render.rs:139-157: the identifier of an !Id payload, or the error
id_of(tag_value) ==
    CASE tag_value.k = "Mapping" ->
            LET e == get_entry(tag_value, KeyId) IN
            IF ~e.some THEN [st |-> "Err", id |-> <<>>]
            ELSE IF ~is_string(e.v) THEN [st |-> "Err", id |-> <<>>]
            ELSE [st |-> "Ok", id |-> as_str(e.v)]
      [] tag_value.k = "Sequence" ->
            IF Len(tag_value.c) = 0 THEN [st |-> "Err", id |-> <<>>]
            ELSE IF ~is_string(tag_value.c[1]) THEN [st |-> "Err", id |-> <<>>]
            ELSE [st |-> "Ok", id |-> as_str(tag_value.c[1])]
      [] OTHER -> [st |-> "Err", id |-> <<>>]

\* render.rs:159-171: the value of an !Id payload (a copy), where it sits in
\* the payload (at), or the error
id_value_of(tag_value) ==
    CASE tag_value.k = "Mapping" ->
            LET e == get_entry(tag_value, KeyValue) IN
            IF ~e.some THEN [st |-> "Err", v |-> Null, at |-> 0]
            ELSE [st |-> "Ok", v |-> e.v, at |-> EntryIndex(tag_value, KeyValue)]
      [] tag_value.k = "Sequence" ->
            IF Len(tag_value.c) < 2 THEN [st |-> "Err", v |-> Null, at |-> 0]
            ELSE [st |-> "Ok", v |-> tag_value.c[2], at |-> 2]
      [] OTHER -> [st |-> "Err", v |-> Null, at |-> 0]

(***************************************************************************)
(* render and the four tag resolvers.  Each returns the status of the      *)
(* call ("Ok", "Err" for an Err(..) handed to the caller, "Panic" for a    *)
(* panic!), the value as the call left it (the argument is changed in      *)
(* place, also when the call fails half way) and the context.  The tag     *)
(* resolvers also return `out`, the value they hand back.  p is the        *)
(* position of the node in the document; it only labels the events.        *)
(***************************************************************************)
RECURSIVE render(_, _, _)
RECURSIVE render_items(_, _, _, _)
RECURSIVE render_tag_strf(_, _, _)
RECURSIVE strf_loop(_, _, _, _, _)
RECURSIVE render_tag_input(_, _, _, _, _)
RECURSIVE render_tag_id(_, _, _)

\* adding the piece in front
push_str_front(formatted_string, piece) == piece \o formatted_string

\* String += &str (render.rs:50)
push_str(formatted_string, piece) == formatted_string \o piece

\* leaving the tagged node where it is
swap_value_lost(value, new_value) == value

\* std::mem::swap(value, &mut new_value) (render.rs:33): the node becomes new_value
swap_value(value, new_value) == new_value

\* the loop taking the items from the last to the first
RECURSIVE render_items_backwards(_, _, _, _)
render_items_backwards(cx, items, i, p) ==
    IF i > Len(items)
    THEN [st |-> "Ok", items |-> items, cx |-> cx]
    ELSE LET n == Len(items) - i + 1
             r == render(cx, items[n], p \o <<n>>) IN
         IF r.st # "Ok"
         THEN [st |-> r.st, items |-> [items EXCEPT ![n] = r.v], cx |-> r.cx]
         ELSE render_items_backwards(r.cx, [items EXCEPT ![n] = r.v], i + 1, p)

\* render.rs:11-13 and 16-18: `for item in seq { render(_ids, item)?; }`
render_items(cx, items, i, p) ==
    IF i > Len(items)
    THEN [st |-> "Ok", items |-> items, cx |-> cx]
    ELSE LET r == render(cx, items[i], p \o <<i>>) IN
         IF r.st # "Ok"
         THEN [st |-> r.st, items |-> [items EXCEPT ![i] = r.v], cx |-> r.cx]
         ELSE render_items(r.cx, [items EXCEPT ![i] = r.v], i + 1, p)

\* a tag of any other name left as it is, without an error
invalid_tag_passes(cx, tag_value) == [st |-> "Ok", v |-> tag_value, out |-> tag_value, cx |-> cx]

\* render.rs:31: `_ => bail!(format!("{} is not a valid tag", tagged.tag))`
invalid_tag(cx, tag_value) == [st |-> "Err", v |-> tag_value, out |-> Null, cx |-> cx]

\* render.rs:8-38
render(cx, value, p) ==
    CASE value.k \in {"Mapping", "Sequence"} ->
            LET r == render_items(cx, value.c, 1, p) IN
            [st |-> r.st, v |-> [value EXCEPT !.c = r.items], cx |-> r.cx]
      [] value.k = "Tagged" ->
            LET cx0 == Logged(cx, Event("enter", p, value.tag, <<>>, FALSE, value.c[1]))
                r == CASE value.tag = "!Input" -> render_tag_input(cx0, value.c[1], FALSE, p, value.tag)
                       [] value.tag = "!HiddenInput" -> render_tag_input(cx0, value.c[1], TRUE, p, value.tag)
                       [] value.tag = "!StrF" -> render_tag_strf(cx0, value.c[1], p)
                       [] value.tag = "!Id" -> render_tag_id(cx0, value.c[1], p)
                       [] OTHER -> invalid_tag(cx0, value.c[1])
            IN IF r.st = "Ok"
               THEN [st |-> "Ok", v |-> swap_value(value, r.out),
                     cx |-> Logged(r.cx, Event("ret", p, value.tag, <<>>, FALSE, r.out))]
               ELSE [st |-> r.st, v |-> [value EXCEPT !.c = <<r.v>>], cx |-> r.cx]
      [] OTHER -> [st |-> "Ok", v |-> value, cx |-> cx]

\* render.rs:45-51: the loop over a copy of the sequence
strf_loop(cx, items, i, formatted_string, p) ==
    IF i > Len(items)
    THEN [st |-> "Ok", out |-> Str(formatted_string), cx |-> cx]
    ELSE LET r == render(cx, items[i], p \o <<1, i>>) IN
         IF r.st # "Ok" THEN [st |-> r.st, out |-> Null, cx |-> r.cx]
         ELSE IF ~is_string(r.v) THEN [st |-> "Panic", out |-> Null, cx |-> r.cx]
         ELSE strf_loop(r.cx, items, i + 1, push_str(formatted_string, as_str(r.v)), p)

\* render.rs:40-53
render_tag_strf(cx, tag_value, p) ==
    IF ~is_sequence(tag_value)
    THEN [st |-> "Panic", v |-> tag_value, out |-> Null, cx |-> cx]
    ELSE LET r == strf_loop(cx, untag_ref(tag_value).c, 1, <<>>, p) IN
         [st |-> r.st, v |-> tag_value, out |-> r.out, cx |-> r.cx]

\* rpassword::prompt_password, called at render.rs:113, on the line that
\* was typed: a line that does not end with a line feed is an error (the
\* input ended before the line did); the line feed and one carriage return
\* in front of it are taken off
prompt_password(line) ==
    IF line = <<>> \/ line[Len(line)] # "\n"
    THEN [ok |-> FALSE, line |-> <<>>]
    ELSE LET cut == SubSeq(line, 1, Len(line) - 1) IN
         [ok |-> TRUE,
          line |-> IF cut # <<>> /\ cut[Len(cut)] = "\r"
                   THEN SubSeq(cut, 1, Len(cut) - 1) ELSE cut]

\* render.rs:111-125: the read of one line.  rpassword::prompt_password writes
\* the prompt itself before it reads.  At the end of the input read_line gives
\* the empty line and prompt_password fails.
read_input(cx, prompt, hidden, p) ==
    LET cx1 == IF hidden THEN Logged(cx, Event("print", p, "", prompt, TRUE, Null)) ELSE cx
        item == IF cx.inp = <<>> THEN [ok |-> TRUE, line |-> <<>>] ELSE Head(cx.inp)
        rest == IF cx.inp = <<>> THEN <<>> ELSE Tail(cx.inp)
        got == IF hidden /\ item.ok THEN prompt_password(item.line) ELSE item
    IN IF ~got.ok
       THEN [st |-> "Err", input |-> <<>>, cx |-> [cx1 EXCEPT !.inp = rest]]
       ELSE [st |-> "Ok", input |-> got.line,
             cx |-> Logged([cx1 EXCEPT !.inp = rest], Event("read", p, "", item.line, hidden, Null))]

\* render.rs:55-136
render_tag_input(cx, tag_value, hidden, p, tag) ==
    LET r == render(cx, tag_value, p \o <<1>>) IN
    IF r.st # "Ok" THEN [st |-> r.st, v |-> r.v, out |-> Null, cx |-> r.cx]
    ELSE
    LET cx1 == Logged(r.cx, Event("payload", p, tag, <<>>, hidden, r.v))
        a == input_arguments(r.v) IN
    IF a.st # "Ok" THEN [st |-> a.st, v |-> r.v, out |-> Null, cx |-> cx1]
    ELSE
    LET cx2 == Logged(cx1, Event("print", p, "", a.prompt, hidden, Null))
        rd == read_input(cx2, a.prompt, hidden, p) IN
    IF rd.st # "Ok" THEN [st |-> rd.st, v |-> r.v, out |-> Null, cx |-> rd.cx]
    ELSE [st |-> "Ok", v |-> r.v,
          out |-> Str(substitute_default(a.default, remove_linebreaks(rd.input))),
          cx |-> rd.cx]

\* resolving the value whether or not the identifier is cached
needs_render_always(ids, id) == TRUE

\* render.rs:173: `if !_ids.contains_key(&id)`, the value is resolved on a miss only
needs_render(ids, id) == ~contains_key(ids, id)

\* render.rs:138-179
render_tag_id(cx, tag_value, p) ==
    LET i == id_of(tag_value)
        val == id_value_of(tag_value) IN
    IF i.st # "Ok" \/ val.st # "Ok"
    THEN [st |-> "Err", v |-> tag_value, out |-> Null, cx |-> cx]
    ELSE
    LET hit == contains_key(cx.ids, i.id)
        cx1 == Logged(cx, Event("lookup", p, "!Id", i.id, hit, Null)) IN
    IF ~needs_render(cx.ids, i.id)
    THEN [st |-> "Ok", v |-> tag_value, out |-> ids_get(cx1.ids, i.id), cx |-> cx1]
    ELSE
    LET r == render(cx1, val.v, p \o <<1, val.at>>) IN
    IF r.st # "Ok" THEN [st |-> r.st, v |-> tag_value, out |-> Null, cx |-> r.cx]
    ELSE
    LET ids2 == ids_insert(r.cx.ids, i.id, r.v)
        cx2 == Logged([r.cx EXCEPT !.ids = ids2], Event("insert", p, "!Id", i.id, FALSE, r.v))
    IN [st |-> "Ok", v |-> tag_value, out |-> ids_get(ids2, i.id), cx |-> cx2]

(***************************************************************************)
(* The documents of the model: what serde_yaml hands to render.  A node    *)
(* carries at most one tag, so a tag's inner value is never itself tagged. *)
(***************************************************************************)
SA == <<"a">>
SB == <<"b">>
IdX == <<"x">>
IdY == <<"y">>
KeyOne == Str(<<"k", "1">>)
KeyTwo == Str(<<"k", "2">>)
KeyThree == Str(<<"k", "3">>)
\* a mapping key that carries a tag: `!Id [x, a]: ...`
KeyTagged == Tagged("!Id", SeqV(<<Str(IdX), Str(SA)>>))

InputTags == {"!Input", "!HiddenInput"}
Leaf == {Str(SA), Str(SB), Num}

InSeq1(t, p) == Tagged(t, SeqV(<<p>>))
InSeq2(t, p, d) == Tagged(t, SeqV(<<p, d>>))
InMap(t, p) == Tagged(t, MapV(<<KeyPrompt>>, <<p>>))
InMapD(t, p, d) == Tagged(t, MapV(<<KeyPrompt, KeyDefault>>, <<p, d>>))
IdSeq(id, v) == Tagged("!Id", SeqV(<<Str(id), v>>))
IdMap(id, v) == Tagged("!Id", MapV(<<KeyId, KeyValue>>, <<Str(id), v>>))
StrF(items) == Tagged("!StrF", SeqV(items))

\* tags over plain values, well formed and not
Atoms ==
    Leaf
    \cup UNION {{Tagged(t, Str(SA)), InSeq1(t, Str(SA)), InSeq2(t, Str(SA), Str(SB)),
                 InMap(t, Str(SA)), InMapD(t, Str(SA), Str(SB))} : t \in InputTags}
    \cup {Tagged("!Input", Num), Tagged("!Input", SeqV(<<>>)),
          Tagged("!Input", SeqV(<<Str(SA), Str(SB), Str(SA)>>)),
          InSeq2("!Input", Num, Str(SB)), InSeq2("!HiddenInput", Str(SA), Num),
          Tagged("!Input", MapV(<<KeyDefault>>, <<Str(SB)>>)),
          InMap("!HiddenInput", Num), InMapD("!Input", Str(SA), Num),
          Tagged("!Input", MapV(<<KeyPrompt, KeyOne>>, <<Str(SA), Num>>))}
    \cup {IdSeq(IdX, Str(SA)), IdSeq(IdX, Str(SB)), IdMap(IdX, Str(SA)), IdMap(IdX, Str(SB)),
          IdSeq(IdY, Str(SA)), IdMap(IdY, Str(SB)), IdSeq(IdX, Num)}
    \cup {Tagged("!Id", SeqV(<<Str(IdX)>>)), Tagged("!Id", SeqV(<<>>)), Tagged("!Id", Str(IdX)),
          Tagged("!Id", MapV(<<KeyId>>, <<Str(IdX)>>)),
          Tagged("!Id", MapV(<<KeyValue>>, <<Str(SA)>>)),
          Tagged("!Id", SeqV(<<Num, Str(SA)>>))}
    \cup {StrF(<<>>), StrF(<<Str(SA)>>), StrF(<<Str(SA), Str(SB)>>), StrF(<<Num>>),
          StrF(<<Str(SA), Num>>), Tagged("!StrF", Str(SA)),
          Tagged("!StrF", MapV(<<KeyOne>>, <<Str(SA)>>))}
    \cup {Tagged("!Env", Str(SA))}

\* one more level around a value v
Wrap(v) ==
    {SeqV(<<v>>), SeqV(<<v, Str(SB)>>), SeqV(<<Str(SB), v>>),
     MapV(<<KeyOne>>, <<v>>), MapV(<<KeyOne, KeyTwo>>, <<Str(SB), v>>),
     MapV(<<KeyTagged>>, <<v>>),
     IdSeq(IdX, v), IdMap(IdX, v), IdSeq(IdY, v),
     StrF(<<v>>), StrF(<<v, Str(SB)>>), StrF(<<Str(SB), v>>)}
    \cup (IF v.k = "Tagged" THEN {}
          ELSE {Tagged("!Input", v), Tagged("!HiddenInput", v), Tagged("!StrF", v),
                Tagged("!Id", v)})
    \cup {InSeq1("!Input", v), InSeq2("!Input", v, Str(SB)), InSeq2("!Input", Str(SA), v),
          InMap("!Input", v), InMapD("!HiddenInput", Str(SA), v)}

RECURSIVE Nested(_)
Nested(d) == IF d = 0 THEN Atoms
             ELSE Nested(d - 1) \cup UNION {Wrap(v) : v \in Nested(d - 1)}

\* the entries of the top-level sequences and mappings
TopPool ==
    {Str(SA), IdSeq(IdX, Str(SA)), IdMap(IdX, Str(SB)), IdSeq(IdY, Str(SB)),
     IdSeq(IdX, Tagged("!Input", Str(SA))), IdMap(IdX, IdSeq(IdY, Str(SA))),
     IdSeq(IdX, SeqV(<<IdMap(IdX, Str(SB)), Str(SA)>>)),
     IdSeq(IdX, SeqV(<<IdSeq(IdX, Str(SB)), IdMap(IdX, Str(SA))>>)),
     Tagged("!Id", SeqV(<<Str(IdX)>>)),
     Tagged("!Input", Str(SA)), InSeq2("!HiddenInput", Str(SA), Str(SB)),
     InSeq2("!HiddenInput", Str(SA), Num),
     StrF(<<IdSeq(IdX, Str(SB)), Tagged("!Input", Str(SA))>>),
     Tagged("!StrF", Str(SA)), Tagged("!Env", Str(SA)),
     StrF(<<Str(SB), Tagged("!Env", Str(SA))>>)}

TopKeys == <<KeyOne, KeyTwo, KeyThree, KeyPrompt, KeyDefault, KeyId, KeyValue>>

SeqsOf(S, lo, hi) == UNION {[1..n -> S] : n \in lo..hi}

TopLevel ==
    UNION {{SeqV(items), MapV(SubSeq(TopKeys, 1, Len(items)), items)} :
           items \in SeqsOf(TopPool, 2, IF MaxItems < 7 THEN MaxItems ELSE 7)}

\* the Input and HiddenInput tags among the values of a tree (keys are never read)
RECURSIVE NumInputs(_)
RECURSIVE NumInputsOf(_, _)
NumInputsOf(items, i) ==
    IF i > Len(items) THEN 0 ELSE NumInputs(items[i]) + NumInputsOf(items, i + 1)
NumInputs(v) == (IF v.k = "Tagged" /\ v.tag \in InputTags THEN 1 ELSE 0) + NumInputsOf(v.c, 1)

NestedDocs == Nested(MaxDepth)
SimpleDocs == Nested(IF MaxDepth < 1 THEN MaxDepth ELSE 1)
Docs == {d \in NestedDocs \cup TopLevel : NumInputs(d) <= MaxReads}

\* the lines the operator may type: read_line stops after the first "\n"
LineChars == {"a", "\r", "\n"}
IsLine(l) == \A i \in 1..Len(l) : l[i] = "\n" => i = Len(l)
Lines == {l \in SeqsOf(LineChars, 0, MaxLineLen) : IsLine(l)}
ReadOk(l) == [ok |-> TRUE, line |-> l]
ReadFails == [ok |-> FALSE, line |-> <<>>]
\* all lines for the documents of one tag, an empty and a non-empty line for the rest
StdinFor(d) ==
    IF d \in SimpleDocs
    THEN [1..NumInputs(d) -> {ReadOk(l) : l \in Lines} \cup {ReadFails}]
    ELSE [1..NumInputs(d) -> {ReadOk(<<"a", "\n">>), ReadOk(<<"\n">>)}]

\* what execute() handed back to its caller: nothing yet, or the unit value.
\* The fields of an error are those the caller would read from it.
NoReturn == [kind |-> "none", index |-> 0, name |-> "", cause |-> ""]
UnitReturn == [kind |-> "unit", index |-> 0, name |-> "", cause |-> ""]

NoResult == [st |-> "None", v |-> Null, ids |-> <<>>, inp |-> <<>>, log |-> <<>>]

\* yaml_parser/mod.rs:477-478: the document is read and render is called on it
\* with an empty cache
Resolve ==
    /\ phase = "loaded"
    /\ LET r == render(Cx(<<>>, stdin, <<>>), doc, <<>>) IN
       res' = [st |-> r.st, v |-> r.v, ids |-> r.cx.ids, inp |-> r.cx.inp, log |-> r.cx.log]
    /\ phase' = "resolved"
    /\ UNCHANGED <<doc, stdin, execVars, taskVars>>

ExecIdle ==
    /\ job = Null
    /\ host = ""
    /\ stack = <<>>
    /\ trace = <<>>
    /\ proc = "idle"
    /\ result = NoReturn

InitRender ==
    /\ doc \in Docs
    /\ stdin \in StdinFor(doc)
    /\ phase = "loaded"
    /\ res = NoResult
    /\ ExecIdle
    /\ TasksIdle

NextRender == Resolve

SpecRender == InitRender /\ [][NextRender]_vars

(***************************************************************************)
(* Reading the log of a finished pass.                                     *)
(***************************************************************************)
Resolved == phase = "resolved"
ResolvedOk == phase = "resolved" /\ res.st = "Ok"
LogIdx == 1..Len(res.log)
IsEv(i, ev) == res.log[i].ev = ev

\* the tag at `path` was replaced, and by what
HasRet(path) == \E i \in LogIdx : IsEv(i, "ret") /\ res.log[i].path = path
RetIdx(path) == CHOOSE i \in LogIdx : IsEv(i, "ret") /\ res.log[i].path = path
RetVal(path) == res.log[RetIdx(path)].tv
\* the payload the tag at `path` had in the document
PayloadAt(path) == res.log[CHOOSE i \in LogIdx : IsEv(i, "enter") /\ res.log[i].path = path].tv

\* positions in the document: textual (pre-) order, and the order of finishing
IsPrefix(p, q) == Len(p) <= Len(q) /\ SubSeq(q, 1, Len(p)) = p
FirstDiff(p, q) == CHOOSE n \in 1..Len(p) : n <= Len(q) /\ p[n] # q[n]
                                            /\ \A h \in 1..(n - 1) : p[h] = q[h]
Beside(p, q) == ~IsPrefix(p, q) /\ ~IsPrefix(q, p)
TextuallyBefore(p, q) ==
    p # q /\ (IsPrefix(p, q) \/ (Beside(p, q) /\ p[FirstDiff(p, q)] < q[FirstDiff(p, q)]))
FinishesBefore(p, q) ==
    p # q /\ (IsPrefix(q, p) \/ (Beside(p, q) /\ p[FirstDiff(p, q)] < q[FirstDiff(p, q)]))

\* a Tagged node among the values of a tree / anywhere in it, keys included
RECURSIVE HasTaggedValue(_)
HasTaggedValue(v) == v.k = "Tagged" \/ \E i \in 1..Len(v.c) : HasTaggedValue(v.c[i])
RECURSIVE HasTaggedNode(_)
HasTaggedNode(v) ==
    \/ v.k = "Tagged"
    \/ \E i \in 1..Len(v.c) : HasTaggedNode(v.c[i])
    \/ \E i \in 1..Len(v.keys) : HasTaggedNode(v.keys[i])

\* the first lookup of its identifier in the pass
FirstLookup(i) ==
    /\ IsEv(i, "lookup")
    /\ \A h \in 1..(i - 1) : ~(IsEv(h, "lookup") /\ res.log[h].text = res.log[i].text)
\* j looks up the identifier that i looked up first
LaterLookup(i, j) ==
    /\ FirstLookup(i) /\ i < j /\ IsEv(j, "lookup") /\ res.log[j].text = res.log[i].text
    /\ HasRet(res.log[i].path) /\ HasRet(res.log[j].path)

(***************************************************************************)
(* C3                                                                      *)
(***************************************************************************)
\* C3 as stated: for every identifier the first !Id in document order
\* determines the value, every later !Id of that identifier resolves to it.
C3_EveryLaterIdGetsFirstValue ==
    Resolved =>
        \A i, j \in LogIdx :
            LaterLookup(i, j) => RetVal(res.log[j].path) = RetVal(res.log[i].path)

\* the values stored for the identifier of the lookup j before it
InsertsBefore(j) ==
    {h \in 1..(j - 1) : IsEv(h, "insert") /\ res.log[h].text = res.log[j].text}
LastInsertBefore(j) == CHOOSE h \in InsertsBefore(j) : \A g \in InsertsBefore(j) : g <= h
\* the !Id of the lookup j stored the value it resolved its own payload to
StoredOwnValue(j) ==
    \E h \in LogIdx :
        /\ j < h /\ IsEv(h, "insert") /\ res.log[h].path = res.log[j].path
        /\ res.log[h].tv = RetVal(res.log[j].path)
\* an !Id strictly inside the payload of the !Id of the lookup i
NestedIn(i, j) ==
    IsPrefix(res.log[i].path, res.log[j].path) /\ res.log[i].path # res.log[j].path

\* C3 as amended: once the first !Id of an identifier has been resolved, every
\* !Id of that identifier met afterwards resolves to the first one's value,
\* whatever its own payload and form.  In general an !Id resolves to the
\* value that was stored last for its identifier before it was met, and to
\* the value of its own payload, which it stores, when none was: so among
\* the !Ids nested in the payload of the first one the first to be resolved
\* gives its value to those after it.
C3_LaterIdGetsFirstValue ==
    Resolved =>
        /\ \A i, j \in LogIdx :
              (LaterLookup(i, j) /\ RetIdx(res.log[i].path) < j)
                  => RetVal(res.log[j].path) = RetVal(res.log[i].path)
        /\ \A j \in LogIdx :
              (IsEv(j, "lookup") /\ HasRet(res.log[j].path)) =>
                  IF InsertsBefore(j) # {}
                  THEN /\ res.log[j].flag
                       /\ RetVal(res.log[j].path) = res.log[LastInsertBefore(j)].tv
                  ELSE ~res.log[j].flag /\ StoredOwnValue(j)

\* a sequence-form !Id followed by a map-form !Id of the same identifier whose
\* own payload holds another value; in the payload of the first, two !Ids of
\* the identifier, the second of which got the value of the first and not
\* that of its own payload
C3_Witness ==
    /\ ResolvedOk
    /\ \E i, j \in LogIdx :
          /\ LaterLookup(i, j) /\ RetIdx(res.log[i].path) < j
          /\ PayloadAt(res.log[i].path).k = "Sequence"
          /\ PayloadAt(res.log[j].path).k = "Mapping"
          /\ id_value_of(PayloadAt(res.log[j].path)).v # RetVal(res.log[j].path)
          /\ \E g, h \in LogIdx :
                /\ g < h /\ NestedIn(i, g) /\ NestedIn(i, h)
                /\ LaterLookup(i, g) /\ LaterLookup(i, h)
                /\ ~res.log[g].flag /\ res.log[h].flag
                /\ RetVal(res.log[h].path) = RetVal(res.log[g].path)
                /\ id_value_of(PayloadAt(res.log[h].path)).v # RetVal(res.log[h].path)
                /\ RetVal(res.log[i].path) # RetVal(res.log[g].path)

(***************************************************************************)
(* C4                                                                      *)
(***************************************************************************)
\* C4: an !Id whose identifier is in the cache is replaced at once by the
\* cached value: between the lookup and the replacement nothing is entered,
\* printed, read or inserted, so its payload is not evaluated.
C4_HitSkipsPayload ==
    Resolved =>
        \A i \in LogIdx :
            (IsEv(i, "lookup") /\ res.log[i].flag) =>
                /\ i < Len(res.log)
                /\ IsEv(i + 1, "ret")
                /\ res.log[i + 1].path = res.log[i].path
                /\ \A h \in LogIdx : res.log[h].ev \in {"enter", "print", "read", "insert", "lookup"}
                       => ~(IsPrefix(res.log[i].path, res.log[h].path)
                            /\ res.log[h].path # res.log[i].path)

\* a cache hit on an !Id whose own payload holds a tag, in a pass that left a
\* line of input unread
C4_Witness ==
    /\ ResolvedOk
    /\ \E i \in LogIdx :
          /\ IsEv(i, "lookup") /\ res.log[i].flag
          /\ HasTaggedValue(id_value_of(PayloadAt(res.log[i].path)).v)
    /\ res.inp # <<>>

(***************************************************************************)
(* C5                                                                      *)
(***************************************************************************)
\* C5 as stated: after a successful render no Tagged node is left anywhere
\* in the tree.
C5_NoTaggedNodeLeft == ResolvedOk => ~HasTaggedNode(res.v)

\* C5 as amended: after a successful render no Tagged node is left among the
\* mapping values and sequence elements of the tree, at any depth; mapping
\* keys are not resolved.
C5_NoTaggedValueLeft == ResolvedOk => ~HasTaggedValue(res.v)

\* tags below a mapping or sequence were resolved, one of them from the cache
C5_Witness ==
    /\ ResolvedOk
    /\ doc.k \in {"Mapping", "Sequence"}
    /\ HasTaggedValue(doc)
    /\ \E i \in LogIdx : IsEv(i, "lookup") /\ res.log[i].flag

(***************************************************************************)
(* C6                                                                      *)
(***************************************************************************)
Acts(i) == res.log[i].ev \in {"print", "insert"}

\* C6 as stated: prompts are shown in the textual order of their tags, and the
\* textually first !Id of an identifier is the one that populates the cache.
C6_PromptsInTextualOrder ==
    Resolved =>
        /\ \A i, j \in LogIdx :
              (i < j /\ IsEv(i, "print") /\ IsEv(j, "print") /\ res.log[i].path # res.log[j].path)
                  => TextuallyBefore(res.log[i].path, res.log[j].path)
        /\ \A i, j \in LogIdx :
              (IsEv(i, "insert") /\ IsEv(j, "lookup") /\ res.log[i].text = res.log[j].text
               /\ \A h \in 1..(i - 1) : ~(IsEv(h, "insert") /\ res.log[h].text = res.log[i].text)
               /\ res.log[i].path # res.log[j].path)
                  => TextuallyBefore(res.log[i].path, res.log[j].path)

\* C6 as amended: tagged nodes are entered in textual order, and a tag acts
\* when its own payload has been resolved: prompts are shown and the cache is
\* populated in the order in which the tags finish (textual order for tags
\* beside one another, a tag nested in a payload before the enclosing tag);
\* the !Id that populates the cache first is the first of its identifier to
\* finish.
C6_TagsActInFinishingOrder ==
    Resolved =>
        /\ \A i, j \in LogIdx :
              (i < j /\ IsEv(i, "enter") /\ IsEv(j, "enter"))
                  => TextuallyBefore(res.log[i].path, res.log[j].path)
        /\ \A i, j \in LogIdx :
              (i < j /\ Acts(i) /\ Acts(j) /\ res.log[i].path # res.log[j].path)
                  => FinishesBefore(res.log[i].path, res.log[j].path)
        /\ \A i, j \in LogIdx :
              (IsEv(i, "insert") /\ IsEv(j, "lookup") /\ res.log[i].text = res.log[j].text
               /\ \A h \in 1..(i - 1) : ~(IsEv(h, "insert") /\ res.log[h].text = res.log[i].text)
               /\ res.log[i].path # res.log[j].path)
                  => FinishesBefore(res.log[i].path, res.log[j].path)

\* two prompts of tags beside one another, after an !Id populated the cache
C6_Witness ==
    /\ ResolvedOk
    /\ \E i, j \in LogIdx :
          /\ i < j /\ IsEv(i, "print") /\ IsEv(j, "print")
          /\ Beside(res.log[i].path, res.log[j].path)
    /\ \E i, j \in LogIdx : i < j /\ IsEv(i, "insert") /\ IsEv(j, "print")

(***************************************************************************)
(* C7                                                                      *)
(***************************************************************************)
\* what element n of the !StrF payload at `path` resolved to
ElementValue(path, n) ==
    LET e == PayloadAt(path).c[n] IN
    IF e.k = "Tagged" THEN RetVal(path \o <<1, n>>) ELSE e

RECURSIVE Concatenation(_, _)
Concatenation(path, n) ==
    IF n = 0 THEN <<>> ELSE Concatenation(path, n - 1) \o ElementValue(path, n).s

\* C7: a resolved !StrF over a sequence is the String made of its elements'
\* resolved strings, in sequence order.
C7_StrFConcatenates ==
    Resolved =>
        \A i \in LogIdx :
            (IsEv(i, "ret") /\ res.log[i].tag = "!StrF") =>
                LET path == res.log[i].path IN
                /\ PayloadAt(path).k = "Sequence"
                /\ \A n \in 1..Len(PayloadAt(path).c) : ElementValue(path, n).k = "String"
                /\ res.log[i].tv = Str(Concatenation(path, Len(PayloadAt(path).c)))

\* an !StrF of two elements, one of them a tag, that gave two different characters
C7_Witness ==
    /\ ResolvedOk
    /\ \E i \in LogIdx :
          /\ IsEv(i, "ret") /\ res.log[i].tag = "!StrF"
          /\ Len(PayloadAt(res.log[i].path).c) = 2
          /\ \E n \in 1..2 : PayloadAt(res.log[i].path).c[n].k = "Tagged"
          /\ Len(res.log[i].tv.s) = 2 /\ res.log[i].tv.s[1] # res.log[i].tv.s[2]

(***************************************************************************)
(* C8                                                                      *)
(***************************************************************************)
\* the !StrF entered at log index i has a payload that is no sequence, or an
\* element that is, or resolved to, something other than a string
BadStrF(i) ==
    /\ IsEv(i, "enter") /\ res.log[i].tag = "!StrF"
    /\ \/ res.log[i].tv.k # "Sequence"
       \/ \E n \in 1..Len(res.log[i].tv.c) :
             LET e == res.log[i].tv.c[n] IN
             IF e.k = "Tagged"
             THEN HasRet(res.log[i].path \o <<1, n>>)
                  /\ RetVal(res.log[i].path \o <<1, n>>).k # "String"
             ELSE e.k # "String"

\* C8: a pass that met such an !StrF ends with an error handed to the caller.
C8_BadStrFIsAnError ==
    Resolved => ((\E i \in LogIdx : BadStrF(i)) => res.st = "Err")

(***************************************************************************)
(* C9                                                                      *)
(***************************************************************************)
LineBreaks == {"\n", "\r"}
\* the line without the line breaks at its end
Trimmed(line) ==
    LET n == CHOOSE m \in 0..Len(line) :
                 /\ \A h \in (m + 1)..Len(line) : line[h] \in LineBreaks
                 /\ (m = 0 \/ line[m] \notin LineBreaks)
    IN SubSeq(line, 1, n)

\* the default a resolved input payload gives: the second element of a
\* sequence, the `default` entry of a map
GivesDefault(tv) ==
    \/ tv.k = "Sequence" /\ Len(tv.c) = 2
    \/ tv.k = "Mapping" /\ HasEntry(tv, KeyDefault)
DefaultGiven(tv) ==
    IF tv.k = "Sequence" THEN tv.c[2].s ELSE tv.c[EntryIndex(tv, KeyDefault)].s

\* the resolved payload of the input tag at `path`
InputPayload(path) ==
    res.log[CHOOSE i \in LogIdx : IsEv(i, "payload") /\ res.log[i].path = path].tv

\* C9: an input tag resolves to the line read without its trailing line
\* breaks; to the default if that is empty and a default was given; to the
\* empty string if it is empty and none was given.
C9_InputValue ==
    Resolved =>
        \A i \in LogIdx :
            IsEv(i, "read") =>
                LET path == res.log[i].path
                    line == Trimmed(res.log[i].text) IN
                /\ HasRet(path)
                /\ RetVal(path) = IF line = <<>> /\ GivesDefault(InputPayload(path))
                                  THEN Str(DefaultGiven(InputPayload(path)))
                                  ELSE Str(line)

\* a line of two line breaks read for a tag with a default, a non-empty line
\* read for a tag with a default
C9_Witness ==
    /\ ResolvedOk
    /\ \E i \in LogIdx :
          /\ IsEv(i, "read") /\ res.log[i].text = <<"\r", "\n">>
          /\ GivesDefault(InputPayload(res.log[i].path))
          /\ RetVal(res.log[i].path) = Str(SB)
    /\ \E i \in LogIdx :
          /\ IsEv(i, "read") /\ res.log[i].text = <<"a", "\n">>
          /\ GivesDefault(InputPayload(res.log[i].path))
          /\ RetVal(res.log[i].path) = Str(SA)

(***************************************************************************)
(* C10                                                                     *)
(***************************************************************************)
\* the accepted payloads: a string, a sequence of one or two strings, a map
\* with a string `prompt` and, if it has a `default`, a string one
AcceptedShape(tv) ==
    \/ tv.k = "String"
    \/ /\ tv.k = "Sequence"
       /\ Len(tv.c) \in {1, 2}
       /\ \A n \in 1..Len(tv.c) : tv.c[n].k = "String"
    \/ /\ tv.k = "Mapping"
       /\ HasEntry(tv, KeyPrompt) /\ tv.c[EntryIndex(tv, KeyPrompt)].k = "String"
       /\ HasEntry(tv, KeyDefault) => tv.c[EntryIndex(tv, KeyDefault)].k = "String"

\* C10: an input tag whose payload has none of the accepted shapes ends the
\* pass with an error, and nothing is printed or read for it.
C10_BadInputShapeFails ==
    Resolved =>
        \A i \in LogIdx :
            (IsEv(i, "payload") /\ ~AcceptedShape(res.log[i].tv)) =>
                /\ res.st = "Err"
                /\ i = Len(res.log)
                /\ \A h \in LogIdx : res.log[h].ev \in {"print", "read"}
                       => res.log[h].path # res.log[i].path

\* a hidden input of a bad shape, met after another tag has prompted and read
C10_Witness ==
    /\ Resolved
    /\ \E i \in LogIdx :
          /\ IsEv(i, "payload") /\ ~AcceptedShape(res.log[i].tv)
          /\ res.log[i].tv.k = "Sequence"
          /\ \E h \in 1..(i - 1) : IsEv(h, "read")

(***************************************************************************)
(* C11                                                                     *)
(***************************************************************************)
\* the tag names render resolves (render.rs:22-30)
ValidTags == {"!Input", "!HiddenInput", "!StrF", "!Id"}

\* C11: when the pass reaches a tagged node of any other name, render returns
\* an error and nothing else is done: the error leaves every enclosing
\* mapping, sequence and tag, and the whole pass fails.
C11_InvalidTagFailsThePass ==
    Resolved =>
        \A i \in LogIdx :
            (IsEv(i, "enter") /\ res.log[i].tag \notin ValidTags) =>
                /\ res.st = "Err"
                /\ i = Len(res.log)
                /\ ~HasRet(res.log[i].path)
                /\ \A h \in 1..(i - 1) :
                       (IsEv(h, "enter") /\ IsPrefix(res.log[h].path, res.log[i].path))
                           => ~HasRet(res.log[h].path)

\* a tag of another name inside the payload of a valid tag, met after an
\* earlier tag was resolved
C11_Witness ==
    /\ Resolved
    /\ res.st = "Err"
    /\ \E i \in LogIdx :
          /\ IsEv(i, "enter") /\ res.log[i].tag \notin ValidTags
          /\ \E h \in 1..(i - 1) :
                /\ IsEv(h, "enter") /\ res.log[h].tag \in ValidTags
                /\ IsPrefix(res.log[h].path, res.log[i].path)
          /\ \E h \in 1..(i - 1) : IsEv(h, "ret")

(***************************************************************************)
(* Part II.  The task model of src/src/tasks/mod.rs.                       *)
(*                                                                         *)
(* A task is [kind, name, os, children]; `job` is the Job that is run and  *)
(* `host` the operating system the program was built for.  The             *)
(* calls of execute() in progress are the frames of `stack`, the innermost *)
(* last: path is the position of the Job in the tree, idx the child its    *)
(* loop is at.  `trace` records what was started and how it ended, `proc`  *)
(* is the state of the process.                                            *)
(***************************************************************************)
BashTask == [kind |-> "Bash", name |-> "sh", os |-> "", children |-> <<>>]
PrintTask == [kind |-> "PrintTask", name |-> "print", os |-> "", children |-> <<>>]
JobTask(name, children) == [kind |-> "Job", name |-> name, os |-> "", children |-> children]
\* tasks/mod.rs:142-145, os being OS::Windows or OS::Linux
OSDependent(os, children) ==
    [kind |-> "OSDependent", name |-> "", os |-> os, children |-> children]

LeafTasks == {BashTask, PrintTask}
\* the jobs a job refers to by name become nested Job nodes
InnerJobs ==
    {JobTask("inner", <<>>), JobTask("inner", <<BashTask>>),
     JobTask("inner", <<PrintTask, BashTask>>), JobTask("inner", <<BashTask, BashTask>>)}
\* the branches `on-windows:` and `on-linux:` of a job
Guarded ==
    {OSDependent("Windows", <<PrintTask, BashTask>>), OSDependent("Linux", <<BashTask, PrintTask>>)}
RootJobs ==
    {JobTask("main", cs) : cs \in SeqsOf(LeafTasks \cup InnerJobs \cup Guarded, 0, MaxChildren)}
\* std::env::consts::OS of the build
Hosts == {"linux", "windows"}

RECURSIVE NodeAt(_, _)
NodeAt(task, path) ==
    IF path = <<>> THEN task ELSE NodeAt(task.children[Head(path)], Tail(path))

Frame(path, idx) == [path |-> path, idx |-> idx]
Top == stack[Len(stack)]
TopJob == NodeAt(job, Top.path)
\* the loop of the innermost execute() has a child left
AtChild == proc = "running" /\ stack # <<>> /\ Top.idx <= Len(TopJob.children)
Child == TopJob.children[Top.idx]
ChildPath == Top.path \o <<Top.idx>>
\* the loop moves on to the next child
Advance == [stack EXCEPT ![Len(stack)].idx = @ + 1]

Started(path) == [ev |-> "start", path |-> path, how |-> ""]
Ended(path, how) == [ev |-> "end", path |-> path, how |-> how]

\* how the spawned process may end: Command::output() fails, or the process
\* exits with a status that is or is not success
Outcomes == {"spawn_error", "success", "failure"}

\* a failing command that lets the process go on
after_bash_goes_on(outcome) == "running"

\* tasks/mod.rs:76-88: .unwrap() panics, a status that is not success ends the
\* process with process::exit(-1), success returns to the caller
after_bash(outcome) ==
    CASE outcome = "spawn_error" -> "panicked"
      [] outcome = "failure" -> "exited"
      [] OTHER -> "running"

\* main.rs:33-35: the selected job is executed
MainExecute ==
    /\ proc = "ready"
    /\ proc' = "running"
    /\ stack' = <<Frame(<<>>, 1)>>
    /\ UNCHANGED <<job, host, trace, result, renderVars, taskVars>>

\* tasks/mod.rs:68-90, called from the loop at tasks/mod.rs:34-36
BashExecute ==
    /\ AtChild /\ Child.kind = "Bash"
    /\ \E outcome \in Outcomes :
          /\ proc' = after_bash(outcome)
          /\ trace' = trace \o <<Started(ChildPath), Ended(ChildPath, outcome)>>
          /\ stack' = IF after_bash(outcome) = "running" THEN Advance ELSE stack
    /\ UNCHANGED <<job, host, result, renderVars, taskVars>>

\* tasks/mod.rs:421-425
PrintExecute ==
    /\ AtChild /\ Child.kind = "PrintTask"
    /\ trace' = trace \o <<Started(ChildPath), Ended(ChildPath, "success")>>
    /\ stack' = Advance
    /\ UNCHANGED <<job, host, proc, result, renderVars, taskVars>>

\* tasks/mod.rs:33-35: a child that is a Job is executed
JobExecute ==
    /\ AtChild /\ Child.kind = "Job"
    /\ trace' = Append(trace, Started(ChildPath))
    /\ stack' = Append(stack, Frame(ChildPath, 1))
    /\ UNCHANGED <<job, host, proc, result, renderVars, taskVars>>

\* a guard that lets every host in
os_matches_any(os, os_const) == TRUE

\* tasks/mod.rs:162-173: the guard of the branch against env::consts::OS
os_matches(os, os_const) ==
    CASE os = "Windows" -> os_const = "windows"
      [] os = "Linux" -> os_const = "linux"
      [] OTHER -> FALSE

\* tasks/mod.rs:161-177: a child that is an OS-gated branch returns at once
\* on another host, and otherwise starts the loop over its children
OSDependentExecute ==
    /\ AtChild /\ Child.kind = "OSDependent"
    /\ IF os_matches(Child.os, host)
       THEN /\ trace' = Append(trace, Started(ChildPath))
            /\ stack' = Append(stack, Frame(ChildPath, 1))
       ELSE /\ trace' = trace \o <<Started(ChildPath), Ended(ChildPath, "success")>>
            /\ stack' = Advance
    /\ UNCHANGED <<job, host, proc, result, renderVars, taskVars>>

\* tasks/mod.rs:175-178: the loop of the branch is over and execute() returns
OSDependentReturn ==
    /\ proc = "running" /\ stack # <<>> /\ Top.idx > Len(TopJob.children)
    /\ TopJob.kind = "OSDependent"
    /\ stack' = [SubSeq(stack, 1, Len(stack) - 1) EXCEPT ![Len(stack) - 1].idx = @ + 1]
    /\ trace' = Append(trace, Ended(Top.path, "success"))
    /\ UNCHANGED <<job, host, proc, result, renderVars, taskVars>>

\* tasks/mod.rs:36-37: the loop is over and execute() returns
JobReturn ==
    /\ proc = "running" /\ stack # <<>> /\ Top.idx > Len(TopJob.children)
    /\ TopJob.kind = "Job"
    /\ IF Len(stack) = 1
       THEN /\ stack' = <<>>
            /\ proc' = "returned"
            /\ result' = UnitReturn
            /\ trace' = trace
       ELSE /\ stack' = [SubSeq(stack, 1, Len(stack) - 1) EXCEPT ![Len(stack) - 1].idx = @ + 1]
            /\ trace' = Append(trace, Ended(Top.path, "success"))
            /\ UNCHANGED <<proc, result>>
    /\ UNCHANGED <<job, host, renderVars, taskVars>>

RenderIdle ==
    /\ doc = Null
    /\ stdin = <<>>
    /\ phase = "idle"
    /\ res = NoResult

InitJob ==
    /\ job \in RootJobs
    /\ host \in Hosts
    /\ stack = <<>>
    /\ trace = <<>>
    /\ proc = "ready"
    /\ result = NoReturn
    /\ RenderIdle
    /\ TasksIdle

NextJob ==
    \/ MainExecute \/ BashExecute \/ PrintExecute \/ JobExecute \/ JobReturn
    \/ OSDependentExecute \/ OSDependentReturn

SpecJob == InitJob /\ [][NextJob]_vars

(***************************************************************************)
(* Reading the trace of an execution.                                      *)
(***************************************************************************)
TraceIdx == 1..Len(trace)
\* the positions of the Jobs of the tree that have been entered
JobPaths == {<<>>} \cup {trace[i].path : i \in {h \in TraceIdx : trace[h].ev = "start"
                                                  /\ NodeAt(job, trace[h].path).kind = "Job"}}
\* the children of the Job at p in the order in which they were started
RECURSIVE StartedChildren(_, _)
StartedChildren(p, n) ==
    IF n = 0 THEN <<>>
    ELSE IF trace[n].ev = "start" /\ Len(trace[n].path) = Len(p) + 1 /\ IsPrefix(p, trace[n].path)
         THEN Append(StartedChildren(p, n - 1), trace[n].path[Len(p) + 1])
         ELSE StartedChildren(p, n - 1)
\* the task at `path` ended well / a task at or below `path` failed
EndedWell(path, n) == \E h \in 1..n : trace[h] = Ended(path, "success")
Failed(path) ==
    \E h \in TraceIdx : trace[h].ev = "end" /\ trace[h].how # "success"
                        /\ IsPrefix(path, trace[h].path)

\* the children of the task at p were started in declaration order, each once
\* and each after the one before it had ended, and none after one that failed
InOrderUntilFailure(p) ==
    /\ StartedChildren(p, Len(trace)) =
           [n \in 1..Len(StartedChildren(p, Len(trace))) |-> n]
    /\ \A n \in TraceIdx :
          (trace[n].ev = "start" /\ Len(trace[n].path) = Len(p) + 1
           /\ IsPrefix(p, trace[n].path) /\ trace[n].path[Len(p) + 1] > 1)
              => EndedWell(p \o <<trace[n].path[Len(p) + 1] - 1>>, n - 1)
    /\ \A c \in 1..Len(NodeAt(job, p).children) :
          Failed(p \o <<c>>) =>
              /\ Len(StartedChildren(p, Len(trace))) = c
              /\ proc \in {"exited", "panicked"}

(***************************************************************************)
(* C1                                                                      *)
(***************************************************************************)
\* C1: every Job starts its children in declaration order, each once and
\* each after the one before it has ended, and once a child has failed no
\* later child is ever started.
C1_ChildrenInOrderUntilFailure ==
    \A p \in JobPaths : InOrderUntilFailure(p)

\* the job has three children, the first ended well, the second failed
C1_Witness ==
    /\ Len(job.children) = 3
    /\ EndedWell(<<1>>, Len(trace))
    /\ Failed(<<2>>)
    /\ proc = "exited"

(***************************************************************************)
(* C2                                                                      *)
(***************************************************************************)
\* C2: when a child of the job has failed, execute has returned to its caller
\* an error that names the child's index and the job and carries the child's
\* error as its cause.
C2_FailureIsReturnedWithContext ==
    \A c \in 1..Len(job.children) :
        Failed(<<c>>) =>
            /\ proc = "returned"
            /\ result.kind = "Err"
            /\ result.index = c - 1
            /\ result.name = job.name
            /\ result.cause # ""

(***************************************************************************)
(* C12                                                                     *)
(***************************************************************************)
\* the OS-gated branches that have been entered, and whether the host is theirs
GuardPaths ==
    {trace[i].path : i \in {h \in TraceIdx : trace[h].ev = "start"
                                   /\ NodeAt(job, trace[h].path).kind = "OSDependent"}}
OnItsHost(p) ==
    \/ NodeAt(job, p).os = "Windows" /\ host = "windows"
    \/ NodeAt(job, p).os = "Linux" /\ host = "linux"
StartIdx(p) == CHOOSE i \in TraceIdx : trace[i] = Started(p)

\* C12: on another host an OS-gated branch returns success at once and none
\* of its children is executed; on its host the children are executed as those
\* of a Job: in declaration order, none after the first that fails.
C12_GuardSkipsOrRunsLikeJob ==
    \A p \in GuardPaths :
        IF OnItsHost(p)
        THEN /\ InOrderUntilFailure(p)
             /\ EndedWell(p, Len(trace)) =>
                    Len(StartedChildren(p, Len(trace))) = Len(NodeAt(job, p).children)
        ELSE /\ StartedChildren(p, Len(trace)) = <<>>
             /\ StartIdx(p) < Len(trace)
             /\ trace[StartIdx(p) + 1] = Ended(p, "success")
             /\ ~Failed(p)

\* one branch was skipped and the job went on, another ran its two children
C12_Witness ==
    /\ \E p \in GuardPaths : ~OnItsHost(p) /\ EndedWell(p, Len(trace))
    /\ \E p \in GuardPaths : /\ OnItsHost(p)
                              /\ Len(StartedChildren(p, Len(trace))) = 2
                              /\ EndedWell(p, Len(trace))
    /\ proc = "returned"

(***************************************************************************)
(* Part III.  Leaf tasks, each parsed from its entry of the document and   *)
(* run on its own.                                                         *)
(*                                                                         *)
(* A Number whose value matters carries it in s as <<form, w, n>>:         *)
(*   form 0  an integer that fits i64, written w * 2^32 + n with n in the  *)
(*           range of i32, so that `as i32` gives n                        *)
(*   form 1  an integer above i64::MAX (held as u64)                       *)
(*   form 2  a float                                                       *)
(***************************************************************************)
\* the largest exit code a process of the model gives
MaxExitCode == 2
\* the longest list of exit codes in a document
MaxCodes == 2

NumI(n) == [Num EXCEPT !.s = <<0, 0, n>>]
WideInt(w, n) == [Num EXCEPT !.s = <<0, w, n>>]
BigUInt == [Num EXCEPT !.s = <<1, 0, 0>>]
Float == [Num EXCEPT !.s = <<2, 0, 0>>]
is_number(v) == untag_ref(v).k = "Number"

\* Option<T>
None == [some |-> FALSE, v |-> <<>>]
Some(v) == [some |-> TRUE, v |-> v]

KeyCommand == Str(<<"c", "o", "m", "m", "a", "n", "d">>)
KeyWorkDir == Str(<<"w", "o", "r", "k", "_", "d", "i", "r">>)
KeyExitCodes == Str(<<"e", "x", "i", "t", "_", "c", "o", "d", "e", "s">>)

\* str::split(' '): the pieces between single spaces, empty ones included
RECURSIVE split(_, _)
split(string, sep) ==
    IF \A i \in 1..Len(string) : string[i] # sep
    THEN <<string>>
    ELSE LET i == CHOOSE j \in 1..Len(string) :
                      string[j] = sep /\ \A h \in 1..(j - 1) : string[h] # sep
         IN <<SubSeq(string, 1, i - 1)>> \o split(SubSeq(string, i + 1, Len(string)), sep)

\* a test that finds every code in every list
contains_anything(codes, exit_code) == TRUE

\* Vec::contains
contains(codes, exit_code) == \E i \in 1..Len(codes) : codes[i] = exit_code

(***************************************************************************)
(* Local shell tasks: `bash:` and `cmd:`.                                  *)
(*   shell.value  the entry of the document                                *)
(*   shell.task   the task parsed from it                                  *)
(*   shell.out    how the spawned process ended                            *)
(*   shell.st     what execute returned                                    *)
(***************************************************************************)
\* T::new(args, work_dir) as the parser calls it (yaml_parser/mod.rs:457-460,
\* 465-468): no exit codes are handed over, the task has none of its own
ShellCommand(args, work_dir) == [args |-> args, work_dir |-> work_dir, allowed_exit_codes |-> None]
NoTask == [args |-> <<>>, work_dir |-> None, allowed_exit_codes |-> None]

\* yaml_parser/mod.rs:438-473
parse_shell_command_task(value) ==
    CASE value.k = "Mapping" ->
            LET command_value == get_entry(value, KeyCommand)
                work_dir_value == get_entry(value, KeyWorkDir) IN
            IF ~command_value.some \/ command_value.v.k # "String"
            THEN [st |-> "Err", task |-> NoTask]
            ELSE IF work_dir_value.some /\ work_dir_value.v.k # "String"
            THEN [st |-> "Err", task |-> NoTask]
            ELSE [st |-> "Ok",
                  task |-> ShellCommand(split(command_value.v.s, " "),
                                        IF work_dir_value.some THEN Some(work_dir_value.v.s)
                                        ELSE None)]
      [] value.k = "String" ->
            [st |-> "Ok", task |-> ShellCommand(split(value.s, " "), None)]
      [] OTHER -> [st |-> "Err", task |-> NoTask]

\* shell.rs:52-55: whether the exit code is a failure
not_allowed(allowed_exit_codes, exit_code) ==
    IF allowed_exit_codes.some THEN ~contains(allowed_exit_codes.v, exit_code)
    ELSE exit_code # 0

\* how the spawned process may end: it cannot be spawned, it is ended by a
\* signal (no exit code), or it exits with a code
Spawned == {[kind |-> "spawn_error", code |-> 0], [kind |-> "signal", code |-> 0]}
             \cup {[kind |-> "exited", code |-> c] : c \in 0..MaxExitCode}
NoOutput == [kind |-> "none", code |-> 0]

\* shell.rs:43-62 (Bash) and shell.rs:101-120 (Cmd)
shell_result(task, output) ==
    CASE output.kind = "spawn_error" -> "Err"
      [] output.kind = "signal" -> "Err"
      [] not_allowed(task.allowed_exit_codes, output.code) -> "Err"
      [] OTHER -> "Ok"

\* the entries of the model
CmdLs == <<"l", "s">>
CmdExit == <<"e", "x", "i", "t", " ", "2">>
CodeLists == {[i \in 1..Len(l) |-> NumI(l[i])] : l \in SeqsOf(0..MaxExitCode, 1, MaxCodes)}
ShellMaps ==
    {MapV(<<KeyCommand>>, <<Str(c)>>) : c \in {CmdLs, CmdExit}}
    \cup {MapV(<<KeyCommand, KeyWorkDir>>, <<Str(c), Str(SA)>>) : c \in {CmdLs, CmdExit}}
    \cup {MapV(<<KeyCommand, KeyExitCodes>>, <<Str(c), SeqV(l)>>) :
              c \in {CmdLs, CmdExit}, l \in CodeLists}
    \cup {MapV(<<KeyExitCodes, KeyWorkDir, KeyCommand>>, <<SeqV(l), Str(SB), Str(CmdExit)>>) :
              l \in CodeLists}
ShellValues ==
    ShellMaps
    \cup {Str(CmdLs), Str(CmdExit), Str(<<>>)}
    \cup {Num, SeqV(<<Str(CmdLs)>>), MapV(<<KeyWorkDir>>, <<Str(SA)>>),
          MapV(<<KeyCommand>>, <<Num>>), MapV(<<KeyCommand, KeyWorkDir>>, <<Str(CmdLs), Num>>)}

\* yaml_parser/mod.rs:135 and 144: the entry is parsed
ShellParse ==
    /\ shell.pc = "parse"
    /\ LET r == parse_shell_command_task(shell.value) IN
       shell' = [shell EXCEPT !.pc = IF r.st = "Ok" THEN "execute" ELSE "rejected",
                              !.task = r.task]
    /\ UNCHANGED <<renderVars, execVars, drv, ssh, par, shown, sftp>>

\* shell.rs:35-64: the task is executed
ShellExecute ==
    /\ shell.pc = "execute"
    /\ \E output \in Spawned :
          shell' = [shell EXCEPT !.pc = "done", !.out = output,
                                 !.st = shell_result(shell.task, output)]
    /\ UNCHANGED <<renderVars, execVars, drv, ssh, par, shown, sftp>>

InitShell ==
    /\ \E value \in ShellValues :
          shell = [pc |-> "parse", value |-> value, task |-> NoTask, out |-> NoOutput,
                   st |-> "None"]
    /\ ssh = Idle /\ par = Idle /\ shown = Idle /\ sftp = Idle /\ drv = Idle
    /\ RenderIdle
    /\ ExecIdle

NextShell == ShellParse \/ ShellExecute

SpecShell == InitShell /\ [][NextShell]_vars

(***************************************************************************)
(* C13                                                                     *)
(***************************************************************************)
\* the exit codes the entry lists
Configured == shell.value.k = "Mapping" /\ HasEntry(shell.value, KeyExitCodes)
ListedCodes ==
    LET l == shell.value.c[EntryIndex(shell.value, KeyExitCodes)].c IN
    {l[i].s[3] : i \in 1..Len(l)}

\* C13: a shell task whose entry lists exit_codes succeeds exactly when the
\* exit code of the process is one of them, and one without exit_codes
\* succeeds exactly when the exit code is 0.
C13_ExitCodesDecideSuccess ==
    (shell.pc = "done" /\ shell.out.kind = "exited") =>
        (shell.st = "Ok" <=>
            IF Configured THEN shell.out.code \in ListedCodes ELSE shell.out.code = 0)

(***************************************************************************)
(* SSH command batches: `ssh:`.                                            *)
(*   ssh.value     the `commands` sequence of the entry                    *)
(*   ssh.parsed    what parsing it gave: st, and the commands of the task  *)
(*   ssh.session   "none", "open" or "closed"; ssh.sessions counts the     *)
(*                 connections made                                        *)
(*   ssh.log       the commands executed on the session, in order: the     *)
(*                 index of the command and how its channel ended          *)
(*   ssh.st, ssh.err  what execute returned                                *)
(***************************************************************************)
\* the most commands of one batch
MaxCommands == 2

\* ssh.rs:33-38
SshCommand(command, allowed_exit_codes) ==
    [command |-> command, allowed_exit_codes |-> allowed_exit_codes]

\* Value::as_i64: the integer, if the number is one that fits i64
as_i64(v) ==
    LET n == untag_ref(v) IN
    IF n.s # <<>> /\ n.s[1] = 0 THEN Some(<<n.s[2], n.s[3]>>) ELSE None
\* `as i32` keeps the low 32 bits
as_i32(wide) == wide[2]

\* yaml_parser/mod.rs:394-403
RECURSIVE exit_codes_loop(_, _, _)
exit_codes_loop(exit_codes_sequence, i, exit_codes) ==
    IF i > Len(exit_codes_sequence) THEN [st |-> "Ok", codes |-> exit_codes]
    ELSE LET exit_code_value == exit_codes_sequence[i] IN
         IF ~is_number(exit_code_value) THEN [st |-> "Err", codes |-> exit_codes]
         ELSE IF ~as_i64(exit_code_value).some THEN [st |-> "Panic", codes |-> exit_codes]
         ELSE exit_codes_loop(exit_codes_sequence, i + 1,
                              Append(exit_codes, as_i32(as_i64(exit_code_value).v)))

NoCommand == SshCommand(<<>>, <<>>)

\* yaml_parser/mod.rs:349-411
parse_ssh_command(value) ==
    CASE value.k = "String" -> [st |-> "Ok", command |-> SshCommand(value.s, <<0>>)]
      [] value.k = "Mapping" ->
            LET entry_value == get_entry(value, KeyCommand)
                command_map == untag_ref(entry_value.v)
                command_entry == get_entry(command_map, KeyCommand)
                exit_codes_entry == get_entry(command_map, KeyExitCodes)
                r == exit_codes_loop(untag_ref(exit_codes_entry.v).c, 1, <<>>)
            IN
            IF ~entry_value.some \/ ~is_mapping(entry_value.v)
            THEN [st |-> "Err", command |-> NoCommand]
            ELSE IF ~command_entry.some \/ ~is_string(command_entry.v)
            THEN [st |-> "Err", command |-> NoCommand]
            ELSE IF ~exit_codes_entry.some \/ ~is_sequence(exit_codes_entry.v)
            THEN [st |-> "Err", command |-> NoCommand]
            ELSE IF r.st # "Ok" THEN [st |-> r.st, command |-> NoCommand]
            ELSE [st |-> "Ok", command |-> SshCommand(as_str(command_entry.v), r.codes)]
      [] OTHER -> [st |-> "Err", command |-> NoCommand]

\* yaml_parser/mod.rs:341-344: `commands.push(parse_ssh_command(&item)?)`
RECURSIVE parse_commands(_, _, _)
parse_commands(command_sequence, i, commands) ==
    IF i > Len(command_sequence) THEN [st |-> "Ok", commands |-> commands]
    ELSE LET r == parse_ssh_command(command_sequence[i]) IN
         IF r.st # "Ok" THEN [st |-> r.st, commands |-> commands]
         ELSE parse_commands(command_sequence, i + 1, Append(commands, r.command))

\* the map form `command: {command: ..., exit_codes: [...]}`
CommandMap(command, codes) ==
    MapV(<<KeyCommand>>, <<MapV(<<KeyCommand, KeyExitCodes>>, <<command, codes>>)>>)

\* every shape of one command
CommandValues ==
    {Str(CmdLs), Str(CmdExit), Str(<<>>)}
    \cup {CommandMap(Str(CmdLs), SeqV(l)) : l \in CodeLists}
    \cup {CommandMap(Str(CmdExit), SeqV(l)) :
              l \in {<<>>, <<WideInt(1, 0)>>, <<NumI(1), WideInt(1, 2)>>, <<WideInt(-1, 1)>>,
                     <<NumI(-1)>>, <<BigUInt>>, <<NumI(0), BigUInt>>, <<Float>>,
                     <<Str(SA)>>, <<NumI(0), Str(SA)>>}}
    \cup {Num, SeqV(<<Str(CmdLs)>>), MapV(<<KeyOne>>, <<Str(CmdLs)>>),
          MapV(<<KeyCommand>>, <<Str(CmdLs)>>),
          CommandMap(Num, SeqV(<<NumI(0)>>)), CommandMap(Str(CmdLs), NumI(0)),
          MapV(<<KeyCommand>>, <<MapV(<<KeyCommand>>, <<Str(CmdLs)>>)>>),
          MapV(<<KeyCommand>>, <<MapV(<<KeyExitCodes>>, <<SeqV(<<NumI(0)>>)>>)>>)}
\* the commands of the longer batches
BatchValues ==
    {Str(CmdLs), CommandMap(Str(CmdExit), SeqV(<<NumI(0), NumI(2)>>)),
     CommandMap(Str(CmdLs), SeqV(<<NumI(1)>>)), CommandMap(Str(CmdExit), SeqV(<<>>))}
Batches == {<<v>> : v \in CommandValues} \cup SeqsOf(BatchValues, 0, MaxCommands)

\* how the channel of one command may end: one of the calls of
\* execute_on_session fails, or the remote exit status is read
Channels == {[kind |-> "channel_error", code |-> 0]}
              \cup {[kind |-> "exited", code |-> c] : c \in 0..MaxExitCode}

NoError == [kind |-> "none", command |-> <<>>, code |-> 0]

\* ssh.rs:40-49: the result of one command: the error of the channel, or the
\* error that names the command and the exit code, or nothing
command_result(command, channel) ==
    CASE channel.kind = "channel_error" ->
            [kind |-> "channel", command |-> command.command, code |-> 0]
      [] ~contains(command.allowed_exit_codes, channel.code) ->
            [kind |-> "exit_code", command |-> command.command, code |-> channel.code]
      [] OTHER -> NoError

\* yaml_parser/mod.rs:171 and 331-346: the commands of the entry are parsed
SshParse ==
    /\ ssh.pc = "parse"
    /\ LET r == parse_commands(ssh.value, 1, <<>>) IN
       ssh' = [ssh EXCEPT !.pc = IF r.st = "Ok" THEN "connect" ELSE "rejected",
                          !.parsed = r]
    /\ UNCHANGED <<renderVars, execVars, drv, shell, par, shown, sftp>>

\* ssh.rs:106-107: one connection for the batch, or the error of connect_ssh
SshConnect ==
    /\ ssh.pc = "connect"
    /\ \E ok \in BOOLEAN :
          ssh' = IF ok
                 THEN [ssh EXCEPT !.pc = "commands", !.session = "open",
                                  !.sessions = @ + 1, !.i = 1]
                 ELSE [ssh EXCEPT !.pc = "done", !.st = "Err",
                                  !.err = [kind |-> "connect", command |-> <<>>, code |-> 0]]
    /\ UNCHANGED <<renderVars, execVars, drv, shell, par, shown, sftp>>

\* ssh.rs:110-114: the next command of the loop is executed on the session;
\* its error ends execute and drops the session
SshCommandExecute ==
    /\ ssh.pc = "commands" /\ ssh.i <= Len(ssh.parsed.commands)
    /\ \E channel \in Channels :
          LET e == command_result(ssh.parsed.commands[ssh.i], channel)
              log == Append(ssh.log, [i |-> ssh.i, session |-> ssh.session,
                                      channel |-> channel])
          IN ssh' = IF e.kind # "none"
                    THEN [ssh EXCEPT !.pc = "done", !.st = "Err", !.err = e, !.log = log,
                                     !.session = "closed"]
                    ELSE [ssh EXCEPT !.i = @ + 1, !.log = log]
    /\ UNCHANGED <<renderVars, execVars, drv, shell, par, shown, sftp>>

\* ssh.rs:115-116: the loop is over
SshReturn ==
    /\ ssh.pc = "commands" /\ ssh.i > Len(ssh.parsed.commands)
    /\ ssh' = [ssh EXCEPT !.pc = "done", !.st = "Ok", !.session = "closed"]
    /\ UNCHANGED <<renderVars, execVars, drv, shell, par, shown, sftp>>

InitSsh ==
    /\ \E value \in Batches :
          ssh = [pc |-> "parse", value |-> value,
                 parsed |-> [st |-> "None", commands |-> <<>>],
                 session |-> "none", sessions |-> 0, i |-> 0, log |-> <<>>,
                 st |-> "None", err |-> NoError]
    /\ shell = Idle /\ par = Idle /\ shown = Idle /\ sftp = Idle /\ drv = Idle
    /\ RenderIdle
    /\ ExecIdle

NextSsh == SshParse \/ SshConnect \/ SshCommandExecute \/ SshReturn

SpecSsh == InitSsh /\ [][NextSsh]_vars

(***************************************************************************)
(* C14                                                                     *)
(***************************************************************************)
SshRuns == ssh.pc \in {"commands", "done"}
\* the exit status of the n-th executed command is one its command allows
StatusAllowed(n) ==
    /\ ssh.log[n].channel.kind = "exited"
    /\ \E h \in 1..Len(ssh.parsed.commands[ssh.log[n].i].allowed_exit_codes) :
          ssh.parsed.commands[ssh.log[n].i].allowed_exit_codes[h] = ssh.log[n].channel.code
StatusRefused(n) == ssh.log[n].channel.kind = "exited" /\ ~StatusAllowed(n)

\* C14: the commands of a batch are executed in list order on the one
\* session of the task; the first command whose exit status its allowed set
\* does not hold ends execute with an error naming that command and that
\* status, and no later command is executed; commands whose status is
\* allowed do not end the batch.
C14_BatchStopsAtFirstRefusedStatus ==
    SshRuns =>
        /\ ssh.sessions <= 1
        /\ \A n \in 1..Len(ssh.log) : ssh.log[n].i = n /\ ssh.log[n].session = "open"
        /\ \A n \in 1..Len(ssh.log) :
              StatusRefused(n) =>
                  /\ n = Len(ssh.log)
                  /\ ssh.pc = "done" /\ ssh.st = "Err"
                  /\ ssh.err.kind = "exit_code"
                  /\ ssh.err.command = ssh.parsed.commands[n].command
                  /\ ssh.err.code = ssh.log[n].channel.code
        /\ (ssh.sessions = 1 /\ \A n \in 1..Len(ssh.log) : StatusAllowed(n)) =>
              /\ ssh.st # "Err"
              /\ ssh.pc = "done" => Len(ssh.log) = Len(ssh.parsed.commands)

\* a batch of two commands: the first ended with a status other than 0 that
\* it allows, the second with one it does not allow
C14_Witness ==
    /\ ssh.pc = "done"
    /\ Len(ssh.parsed.commands) = 2
    /\ Len(ssh.log) = 2
    /\ StatusAllowed(1) /\ ssh.log[1].channel.code # 0
    /\ StatusRefused(2)
    /\ ssh.st = "Err"

(***************************************************************************)
(* C15                                                                     *)
(***************************************************************************)
\* the entry is one command in the map form, with a command string and a
\* list of integers
IsInteger(v) == v.k = "Number" /\ v.s # <<>> /\ v.s[1] \in {0, 1}
ListedOf(value) ==
    LET m == value.c[1] IN m.c[EntryIndex(m, KeyExitCodes)].c
MapForm(value) ==
    /\ value.k = "Mapping" /\ value.keys = <<KeyCommand>> /\ value.c[1].k = "Mapping"
    /\ HasEntry(value.c[1], KeyCommand) /\ HasEntry(value.c[1], KeyExitCodes)
    /\ value.c[1].c[EntryIndex(value.c[1], KeyCommand)].k = "String"
    /\ value.c[1].c[EntryIndex(value.c[1], KeyExitCodes)].k = "Sequence"
    /\ \A i \in 1..Len(ListedOf(value)) : IsInteger(ListedOf(value)[i])
\* the exit code c is the integer the document lists
IsTheInteger(c, v) == v.s = <<0, 0, c>>

\* C15: a bare string is parsed to a command that allows exactly the exit
\* code 0, and the map form to a command that allows exactly the integers of
\* its exit_codes list, in the order of the list.
C15_AllowedCodesAreTheListedOnes ==
    (ssh.pc # "parse" /\ Len(ssh.value) = 1) =>
        LET value == ssh.value[1] IN
        /\ value.k = "String" =>
              /\ ssh.parsed.st = "Ok"
              /\ ssh.parsed.commands = <<SshCommand(value.s, <<0>>)>>
        /\ MapForm(value) =>
              /\ ssh.parsed.st = "Ok"
              /\ Len(ssh.parsed.commands) = 1
              /\ Len(ssh.parsed.commands[1].allowed_exit_codes) = Len(ListedOf(value))
              /\ \A i \in 1..Len(ListedOf(value)) :
                    IsTheInteger(ssh.parsed.commands[1].allowed_exit_codes[i],
                                 ListedOf(value)[i])

(***************************************************************************)
(* Parallel groups: `parallel:`.  A group hands each of its children to a  *)
(* pool of worker threads through a work queue and collects one result per *)
(* child from a completion channel.                                        *)
(*   par.n, par.threads  the children and the workers of the group         *)
(*   par.pc       "dispatch", "collect" or "returned": where execute is    *)
(*   par.next     the child the dispatch loop is at                        *)
(*   par.queue    the work queue: children not yet taken by a worker       *)
(*   par.workers  for each worker the child it runs, 0 when it has none    *)
(*   par.runs     how many times each child was started                    *)
(*   par.ended    how each child ended: "no", "ok" or "failed"             *)
(*   par.channel  the results sent and not yet received                    *)
(*   par.read     the results the group received, in order                 *)
(*   par.lost     the results sent after the group had returned            *)
(*   par.st       what execute returned                                    *)
(***************************************************************************)
\* the most children of a group, and the most workers of its pool
MaxGroup == 3
MaxThreads == 2

Completion(child, ok) == [child |-> child, ok |-> ok]

\* a worker that leaves the child it takes on the queue
queue_after_take_keeps(queue) == queue

\* the work queue once a worker has taken its first child
queue_after_take(queue) == Tail(queue)

\* a group that keeps collecting after a failing result
collect_waits_for_all(read, n) ==
    IF Len(read) < n THEN "collect" ELSE "returned"

\* where execute is once it has received the results `read`: it returns on
\* the first failing result, and when it has one result for every child
collect(read, n) ==
    IF ~read[Len(read)].ok \/ Len(read) = n THEN "returned" ELSE "collect"

\* what execute returns after the results `read`
group_result(read) ==
    IF \E i \in 1..Len(read) : ~read[i].ok THEN "Err" ELSE "Ok"

\* the dispatch loop puts the next child on the work queue
ParDispatch ==
    /\ par.pc = "dispatch" /\ par.next <= par.n
    /\ par' = [par EXCEPT !.queue = Append(@, par.next), !.next = @ + 1,
                          !.pc = IF par.next = par.n THEN "collect" ELSE "dispatch"]
    /\ UNCHANGED <<renderVars, execVars, drv, shell, ssh, shown, sftp>>

\* a worker without a child takes the first one of the queue and starts it
ParTake ==
    /\ par.pc # "idle" /\ par.queue # <<>>
    /\ \E w \in 1..par.threads :
          /\ par.workers[w] = 0
          /\ par' = [par EXCEPT !.workers[w] = Head(par.queue),
                                !.queue = queue_after_take(@),
                                !.runs[Head(par.queue)] = @ + 1]
    /\ UNCHANGED <<renderVars, execVars, drv, shell, ssh, shown, sftp>>

\* the child of a worker ends and its result is sent on the completion
\* channel; nobody receives what is sent after the group has returned
ParFinish ==
    /\ par.pc # "idle"
    /\ \E w \in 1..par.threads, ok \in BOOLEAN :
          /\ par.workers[w] # 0
          /\ par' = [par EXCEPT !.workers[w] = 0,
                                !.ended[par.workers[w]] = IF ok THEN "ok" ELSE "failed",
                                !.channel = IF par.pc = "returned" THEN @
                                            ELSE Append(@, Completion(par.workers[w], ok)),
                                !.lost = IF par.pc = "returned"
                                         THEN Append(@, Completion(par.workers[w], ok))
                                         ELSE @]
    /\ UNCHANGED <<renderVars, execVars, drv, shell, ssh, shown, sftp>>

\* the group receives the next result of the channel
ParReceive ==
    /\ par.pc = "collect" /\ par.channel # <<>>
    /\ LET read == Append(par.read, Head(par.channel)) IN
       par' = [par EXCEPT !.read = read, !.channel = Tail(@),
                          !.pc = collect(read, par.n),
                          !.st = IF collect(read, par.n) = "returned"
                                 THEN group_result(read) ELSE @]
    /\ UNCHANGED <<renderVars, execVars, drv, shell, ssh, shown, sftp>>

InitParallel ==
    /\ \E n \in 1..MaxGroup, threads \in 1..MaxThreads :
          par = [pc |-> "dispatch", n |-> n, threads |-> threads, next |-> 1,
                 queue |-> <<>>, workers |-> [w \in 1..threads |-> 0],
                 runs |-> [c \in 1..n |-> 0], ended |-> [c \in 1..n |-> "no"],
                 channel |-> <<>>, read |-> <<>>, lost |-> <<>>, st |-> "None"]
    /\ shell = Idle /\ ssh = Idle /\ shown = Idle /\ sftp = Idle /\ drv = Idle
    /\ RenderIdle
    /\ ExecIdle

NextParallel == ParDispatch \/ ParTake \/ ParFinish \/ ParReceive

SpecParallel == InitParallel /\ [][NextParallel]_vars

\* the threads of the pool are scheduled and every child ends: a worker with
\* a child ends it, a free worker takes what is on the queue, and execute
\* goes on dispatching and receiving
FairParallel ==
    SpecParallel /\ WF_vars(ParDispatch) /\ WF_vars(ParTake) /\ WF_vars(ParFinish)
                 /\ WF_vars(ParReceive)

(***************************************************************************)
(* C16                                                                     *)
(***************************************************************************)
Children == 1..par.n
Queued(c) == Cardinality({i \in 1..Len(par.queue) : par.queue[i] = c})
Running(c) == \E w \in 1..par.threads : par.workers[w] = c
RunningOn(c) == Cardinality({w \in 1..par.threads : par.workers[w] = c})

\* C16: under every interleaving each child is put on the queue once and
\* started by one worker once, none twice and none left out once the pool has
\* nothing more to do; execute returns success only when it has received the
\* results of all N children, all of them successes, and when it has them it
\* has returned; it never waits with nothing left to happen.
C16_EveryChildOnceThenSuccess ==
    /\ \A c \in Children :
          /\ par.runs[c] <= 1
          /\ Queued(c) + par.runs[c] = (IF c < par.next THEN 1 ELSE 0)
          /\ RunningOn(c) <= 1
          /\ Running(c) => par.runs[c] = 1 /\ par.ended[c] = "no"
    /\ par.st = "Ok" =>
          /\ Len(par.read) = par.n
          /\ \A c \in Children :
                /\ par.runs[c] = 1 /\ par.ended[c] = "ok"
                /\ Cardinality({i \in 1..Len(par.read) : par.read[i].child = c}) = 1
    /\ (Len(par.read) = par.n /\ \A i \in 1..Len(par.read) : par.read[i].ok) =>
          par.pc = "returned" /\ par.st = "Ok"
    /\ ~ENABLED NextParallel =>
          /\ par.pc = "returned"
          /\ \A c \in Children : par.runs[c] = 1 /\ par.ended[c] \in {"ok", "failed"}

\* three children on two workers, all ended well, and execute returned success
C16_Witness ==
    /\ par.pc = "returned" /\ par.st = "Ok"
    /\ par.n = 3 /\ par.threads = 2
    /\ \A c \in Children : par.ended[c] = "ok"

(***************************************************************************)
(* C17                                                                     *)
(***************************************************************************)
\* execute returned failure exactly on the first failing result it received
ReturnsOnFirstFailure ==
    /\ par.pc = "collect" => \A i \in 1..Len(par.read) : par.read[i].ok
    /\ par.st = "Err" =>
          /\ par.pc = "returned"
          /\ ~par.read[Len(par.read)].ok
          /\ \A i \in 1..(Len(par.read) - 1) : par.read[i].ok

\* after execute has returned failure the group stops no child and takes no
\* further result: a running child stays with its worker until it ends, a
\* queued child stays queued until a worker takes it, what is sent goes
\* nowhere and what execute returned stays
NothingStoppedNothingReceived ==
    (par.pc = "returned" /\ par.st = "Err") =>
        /\ par'.pc = par.pc /\ par'.st = par.st
        /\ par'.read = par.read /\ par'.channel = par.channel
        /\ \A c \in Children :
              /\ Running(c) => (Running(c)' \/ par'.ended[c] \in {"ok", "failed"})
              /\ Queued(c) = 1 => (Queued(c)' = 1 \/ Running(c)')
              /\ par.ended[c] # "no" => par'.ended[c] = par.ended[c]

\* C17: execute returns failure on the first failing result it receives,
\* without waiting for the children still running and without stopping them:
\* every child that is running when execute has returned failure runs to
\* its end afterwards, and its result is received by nobody.
C17_StragglersRunToCompletion ==
    /\ []ReturnsOnFirstFailure
    /\ [][NothingStoppedNothingReceived]_vars
    /\ \A c \in 1..MaxGroup :
          [](par.st = "Err" /\ c \in Children /\ Running(c)
                => <>(/\ c \in Children
                      /\ par.ended[c] \in {"ok", "failed"}
                      /\ \E i \in 1..Len(par.lost) : par.lost[i].child = c
                      /\ \A i \in 1..Len(par.read) : par.read[i].child # c))

\* execute has returned failure while another child was running, and that
\* child has ended since: its result went nowhere
C17_Witness ==
    /\ par.pc = "returned" /\ par.st = "Err"
    /\ \E c \in Children :
          /\ par.ended[c] \in {"ok", "failed"}
          /\ \E i \in 1..Len(par.lost) : par.lost[i].child = c
          /\ par.runs[c] = 1
    /\ \E c \in Children : Running(c)

(***************************************************************************)
(* Descriptions of the remote tasks: impl Display.  The description is the *)
(* derived Debug text of the task with every occurrence of the password    *)
(* replaced.  Texts are sequences of characters.                           *)
(*   shown.pc    "task" before the task is formatted, "shown" after        *)
(*   shown.task  the task, shown.text its description                      *)
(***************************************************************************)
\* the longest password
MaxPassword == 2

Marker ==
    <<"*", "*", "*", "N", "o", "t", " ", "d", "i", "s", "p", "l", "a", "y", "e", "d", " ", "f", "o", "r", " ", "s", "e", "c", "u", "r", "i", "t", "y", " ", "r", "e", "a", "s", "o", "n", "s", "*", "*", "*">>

\* str::replace with a pattern of at least one character, from `last_end`
\* on: the text up to the next match, `to`, and the rest after the match
RECURSIVE replace_from(_, _, _, _)
replace_from(string, from, to, last_end) ==
    LET starts == {i \in last_end..(Len(string) - Len(from) + 1) :
                      SubSeq(string, i, i + Len(from) - 1) = from}
    IN  IF starts = {} THEN SubSeq(string, last_end, Len(string))
        ELSE LET start == CHOOSE i \in starts : \A k \in starts : i <= k
             IN  SubSeq(string, last_end, start - 1) \o to
                    \o replace_from(string, from, to, start + Len(from))

\* str::replace: the matches of `from` in `string` from left to right, none
\* overlapping another, each replaced with `to`; the empty pattern matches
\* before every character and at the end
replace(string, from, to) ==
    IF from = <<>>
    THEN [k \in 1..(Len(string) + (Len(string) + 1) * Len(to)) |->
             IF (k - 1) % (Len(to) + 1) < Len(to)
             THEN to[((k - 1) % (Len(to) + 1)) + 1]
             ELSE string[((k - 1) \div (Len(to) + 1)) + 1]]
    ELSE replace_from(string, from, to, 1)

\* str::contains
contains_str(string, pat) ==
    \E i \in 0..(Len(string) - Len(pat)) : SubSeq(string, i + 1, i + Len(pat)) = pat

\* the control characters U+0001 to U+001F, each at the place of its code
\* point (the tab is the 9th, the line feed the 10th, the form feed the 12th,
\* the carriage return the 13th), and the delete character U+007F
ControlChars ==
    <<"", "", "", "", "", "", "", "",
      "\t", "\n", "", "\f", "\r", "", "", "",
      "", "", "", "", "", "", "", "",
      "", "", "", "", "", "", "">>
Delete == ""

HexDigits ==
    <<"0", "1", "2", "3", "4", "5", "6", "7", "8", "9", "a", "b", "c", "d", "e", "f">>
\* {:x} of a code point below 256
lower_hex(n) ==
    IF n < 16 THEN <<HexDigits[n + 1]>>
    ELSE <<HexDigits[(n \div 16) + 1], HexDigits[(n % 16) + 1]>>
\* EscapeUnicode: \u{..} with the code point in hexadecimal digits
escape_unicode(n) == <<"\\", "u", "{">> \o lower_hex(n) \o <<"}">>

\* char::escape_debug_ext as <str as Debug>::fmt calls it, for the ASCII
\* characters: a double quote and a backslash get a backslash in front, a
\* line feed, a tab and a carriage return are written \n, \t and \r, the
\* other control characters \u{..}; a single quote and the printable
\* characters are written as they are.  U+0000, which the code writes \0,
\* is the one character a string of this module cannot hold.
escape_debug(ch) ==
    IF ch = "\"" THEN <<"\\", "\"">>
    ELSE IF ch = "\\" THEN <<"\\", "\\">>
    ELSE IF ch = "\n" THEN <<"\\", "n">>
    ELSE IF ch = "\t" THEN <<"\\", "t">>
    ELSE IF ch = "\r" THEN <<"\\", "r">>
    ELSE IF \E n \in 1..Len(ControlChars) : ControlChars[n] = ch
    THEN escape_unicode(CHOOSE n \in 1..Len(ControlChars) : ControlChars[n] = ch)
    ELSE IF ch = Delete THEN escape_unicode(127)
    ELSE <<ch>>

\* <str as Debug>::fmt: the escaped characters between quotes
RECURSIVE escape_str(_)
escape_str(string) ==
    IF string = <<>> THEN <<>>
    ELSE escape_debug(Head(string)) \o escape_str(Tail(string))
debug_str(string) == <<"\"">> \o escape_str(string) \o <<"\"">>

\* <i32 as Debug>::fmt
DecimalDigits == <<"0", "1", "2", "3", "4", "5", "6", "7", "8", "9">>
RECURSIVE debug_i32(_)
debug_i32(n) ==
    IF n < 0 THEN <<"-">> \o debug_i32(-n)
    ELSE IF n < 10 THEN <<DecimalDigits[n + 1]>>
    ELSE debug_i32(n \div 10) \o <<DecimalDigits[(n % 10) + 1]>>

\* Formatter::debug_list: the items between brackets, ", " between them
RECURSIVE debug_items(_)
debug_items(items) ==
    IF items = <<>> THEN <<>>
    ELSE IF Len(items) = 1 THEN items[1]
    ELSE items[1] \o <<",", " ">> \o debug_items(Tail(items))
debug_list(items) == <<"[">> \o debug_items(items) \o <<"]">>

\* Formatter::debug_struct: Name { field: value, field: value }
debug_struct(name, fields) ==
    name \o <<" ", "{", " ">>
         \o debug_items([i \in 1..Len(fields) |->
                            fields[i][1] \o <<":", " ">> \o fields[i][2]])
         \o <<" ", "}">>

\* #[derive(Debug)] of ssh::SshCommand
debug_SshCommand(command) ==
    debug_struct(<<"S", "s", "h", "C", "o", "m", "m", "a", "n", "d">>,
        << <<<<"c", "o", "m", "m", "a", "n", "d">>, debug_str(command.command)>>,
           <<<<"a", "l", "l", "o", "w", "e", "d", "_", "e", "x", "i", "t", "_", "c", "o", "d", "e", "s">>,
             debug_list([i \in 1..Len(command.allowed_exit_codes) |->
                            debug_i32(command.allowed_exit_codes[i])])>> >>)

\* the fields every remote task starts with
debug_remote(task) ==
    << <<<<"a", "d", "d", "r", "e", "s", "s">>, task.address>>,
       <<<<"u", "s", "e", "r">>, debug_str(task.user)>>,
       <<<<"p", "a", "s", "s", "w", "o", "r", "d">>, debug_str(task.password)>> >>

\* #[derive(Debug)] of the remote tasks: ssh::SshTask, the transfers, and
\* the SshCommand of tasks/mod.rs whose commands are strings
debug(task) ==
    IF task.kind = "SshTask"
    THEN debug_struct(<<"S", "s", "h", "T", "a", "s", "k">>,
            debug_remote(task) \o
            << <<<<"c", "o", "m", "m", "a", "n", "d", "s">>,
                 debug_list([i \in 1..Len(task.commands) |->
                                debug_SshCommand(task.commands[i])])>> >>)
    ELSE IF task.kind = "SshCommand"
    THEN debug_struct(<<"S", "s", "h", "C", "o", "m", "m", "a", "n", "d">>,
            debug_remote(task) \o
            << <<<<"c", "o", "m", "m", "a", "n", "d", "s">>,
                 debug_list([i \in 1..Len(task.commands) |->
                                debug_str(task.commands[i].command)])>> >>)
    ELSE debug_struct(task.name,
            debug_remote(task) \o
            << <<<<"r", "e", "m", "o", "t", "e", "_", "p", "a", "t", "h">>, debug_str(task.remote_path)>>,
               <<<<"l", "o", "c", "a", "l", "_", "p", "a", "t", "h">>, debug_str(task.local_path)>> >>)

\* Display::fmt of the remote tasks
display(task) == replace(debug(task), task.password, Marker)

\* the documents' characters for user names and passwords
PasswordChars == {"s", "x", "\"", "\n", "\f"}
Passwords == SeqsOf(PasswordChars, 0, MaxPassword)
Users == {<<"x">>, <<"u">>}
Address == <<"1", "0", ".", "0", ".", "0", ".", "1">>
RemotePath == <<"/", "r", "/", "x">>
LocalPath == <<"l">>
TransferNames == {
    <<"S", "c", "p", "F", "i", "l", "e", "D", "o", "w", "n", "l", "o", "a", "d">>,
    <<"S", "c", "p", "F", "i", "l", "e", "U", "p", "l", "o", "a", "d">>,
    <<"S", "f", "t", "p", "D", "o", "w", "n", "l", "o", "a", "d">>,
    <<"S", "f", "t", "p", "U", "p", "l", "o", "a", "d">>}
RemoteTasks ==
    {[kind |-> k, name |-> <<>>, address |-> Address, user |-> u, password |-> p,
      commands |-> <<SshCommand(CmdLs, <<0>>), SshCommand(<<"x">>, <<0, 12>>)>>,
      remote_path |-> <<>>, local_path |-> <<>>] :
        k \in {"SshTask", "SshCommand"}, u \in Users, p \in Passwords}
    \cup
    {[kind |-> "Transfer", name |-> n, address |-> Address, user |-> u, password |-> p,
      commands |-> <<>>, remote_path |-> RemotePath, local_path |-> LocalPath] :
        n \in TransferNames, u \in Users, p \in Passwords}

\* println!("{}", job) reaches the task: its description is formatted
TaskDisplay ==
    /\ shown.pc = "task"
    /\ shown' = [shown EXCEPT !.pc = "shown", !.text = display(shown.task)]
    /\ UNCHANGED <<renderVars, execVars, drv, shell, ssh, par, sftp>>

InitDisplay ==
    /\ \E task \in RemoteTasks : shown = [pc |-> "task", task |-> task, text |-> <<>>]
    /\ shell = Idle /\ ssh = Idle /\ par = Idle /\ sftp = Idle /\ drv = Idle
    /\ RenderIdle
    /\ ExecIdle

NextDisplay == TaskDisplay

SpecDisplay == InitDisplay /\ [][NextDisplay]_vars

(***************************************************************************)
(* C18                                                                     *)
(***************************************************************************)
\* C18: the description of a remote task with a password of at least one
\* character never has the password in it and has the marker in it.
C18_PasswordNeverShown ==
    (shown.pc = "shown" /\ shown.task.password # <<>>) =>
        /\ ~contains_str(shown.text, shown.task.password)
        /\ contains_str(shown.text, Marker)

(***************************************************************************)
(* SFTP download: `sftp-download`.  Paths are sequences of components; a   *)
(* local path is relative to the working directory, "." being a component  *)
(* that stays where it is, and that the OS follows only in a directory.    *)
(* The local file system is the set of its                                 *)
(* directories and the set of its files, each at a location: the sequence  *)
(* of names from the working directory down, <<>> being the working        *)
(* directory itself.  A remote node is a file with its data, a directory   *)
(* with its entries in the order readdir gives them, something else, or    *)
(* nothing.                                                                *)
(*   sftp.pc     "start", "stat", "walk" or "done"                         *)
(*   sftp.fs     the local file system, sftp.fs0 as it was at the start    *)
(*   sftp.stack  the calls of download_sftp_dir: the local directory and   *)
(*               the remote entries still to come of each                  *)
(*   sftp.log    the local operations tried, in order, each with its path  *)
(*               and whether it went through                               *)
(*   sftp.st, sftp.cause   what execute returned                           *)
(***************************************************************************)
\* the most entries of a remote directory
MaxEntries == 2

IsNormal(component) == component # "."
\* Path::components: a "." is a component only at the front of the path
components(path) ==
    IF path = <<>> THEN <<>> ELSE <<Head(path)>> \o SelectSeq(Tail(path), IsNormal)
\* Path::parent: the components without the last one, None when there is
\* none; Path::join; Path::file_name: the last component when it is a name
parent(path) ==
    LET c == components(path) IN
    IF c = <<>> THEN None ELSE Some(SubSeq(c, 1, Len(c) - 1))
join(path, name) == Append(path, name)
file_name(path) ==
    LET c == components(path) IN
    IF c = <<>> \/ ~IsNormal(c[Len(c)]) THEN None ELSE Some(c[Len(c)])

\* the place a path names, from the working directory down
location(path) == SelectSeq(path, IsNormal)
\* where the OS finds a path: the empty path is not found, and every
\* component, a "." as well, is looked up in a directory that is there
resolve(fs, path) ==
    IF /\ path # <<>>
       /\ \A i \in 1..Len(path) : location(SubSeq(path, 1, i - 1)) \in fs.dirs
    THEN Some(location(path)) ELSE None

FileAt(fs, loc) == {f \in fs.files : f.loc = loc}
\* Path::is_dir, Path::is_file: the metadata of a path that is not found is
\* an error
is_dir(fs, path) == resolve(fs, path).some /\ resolve(fs, path).v \in fs.dirs
is_file(fs, path) == resolve(fs, path).some /\ FileAt(fs, resolve(fs, path).v) # {}

\* std::fs::create_dir: the path is found up to its last component and
\* nothing is at it
can_create_dir(fs, path) ==
    LET at == resolve(fs, path) IN
    at.some /\ at.v \notin fs.dirs /\ FileAt(fs, at.v) = {}
create_dir(fs, path) ==
    IF can_create_dir(fs, path) THEN [fs EXCEPT !.dirs = @ \cup {location(path)}] ELSE fs

\* std::fs::File::create: the path is found up to its last component and no
\* directory is at it; a file that is there is emptied
can_create_file(fs, path) ==
    LET at == resolve(fs, path) IN at.some /\ at.v \notin fs.dirs
write_file(fs, path, data) ==
    IF can_create_file(fs, path)
    THEN [fs EXCEPT !.files = (@ \ FileAt(fs, location(path)))
                                 \cup {[loc |-> location(path), data |-> data]}]
    ELSE fs

RFile(data) == [kind |-> "file", data |-> data, entries |-> <<>>]
RDir(entries) == [kind |-> "dir", data |-> "", entries |-> entries]
ROther == [kind |-> "other", data |-> "", entries |-> <<>>]
RMissing == [kind |-> "none", data |-> "", entries |-> <<>>]
Entry(name, node) == [name |-> name, node |-> node]

LocalOp(op, path, ok) == [op |-> op, path |-> path, ok |-> ok]

\* a download that always writes to the local path it was given
download_target_as_given(fs, local_path, remote_path) == local_path

\* ssh.rs:333-343: the file a remote file is downloaded to
download_target(fs, local_path, remote_path) ==
    IF is_dir(fs, local_path) THEN join(local_path, file_name(remote_path).v)
    ELSE local_path

\* download_sftp_file: the remote file is opened and read, then the local
\* one is created and written.  `outcome` is "ok", "remote" when the open or
\* the read fails, "create" when File::create fails for a reason of its own,
\* "write" when write_all fails on the created file after `written` bytes:
\* the file keeps what was written.  write_all fails only with bytes left.
download_sftp_file(s, local_path, node, outcome, written) ==
    IF outcome = "remote"
    THEN [s EXCEPT !.pc = "done", !.st = "Err", !.cause = "download", !.stack = <<>>]
    ELSE IF outcome = "create" \/ ~can_create_file(s.fs, local_path)
    THEN [s EXCEPT !.pc = "done", !.st = "Err", !.cause = "download", !.stack = <<>>,
                   !.log = Append(@, LocalOp("write", local_path, FALSE))]
    ELSE IF outcome = "write" /\ written < Len(node.data)
    THEN [s EXCEPT !.pc = "done", !.st = "Err", !.cause = "download", !.stack = <<>>,
                   !.fs = write_file(@, local_path, SubSeq(node.data, 1, written)),
                   !.log = Append(@, LocalOp("write", local_path, FALSE))]
    ELSE [s EXCEPT !.fs = write_file(@, local_path, node.data),
                   !.log = Append(@, LocalOp("write", local_path, TRUE))]

\* create_dir(local_path) and the call of download_sftp_dir on it, up to its
\* readdir.  `outcome` is "ok", "mkdir" when create_dir fails for a reason
\* of its own, "readdir" when the remote directory cannot be read.
enter_dir(s, local_path, node, outcome) ==
    IF outcome = "mkdir" \/ ~can_create_dir(s.fs, local_path)
    THEN [s EXCEPT !.pc = "done", !.st = "Err", !.cause = "create_dir", !.stack = <<>>,
                   !.log = Append(@, LocalOp("mkdir", local_path, FALSE))]
    ELSE IF outcome = "readdir"
    THEN [s EXCEPT !.pc = "done", !.st = "Err", !.cause = "readdir", !.stack = <<>>,
                   !.fs = create_dir(@, local_path),
                   !.log = Append(@, LocalOp("mkdir", local_path, TRUE))]
    ELSE [s EXCEPT !.pc = "walk",
                   !.fs = create_dir(@, local_path),
                   !.log = Append(@, LocalOp("mkdir", local_path, TRUE)),
                   !.stack = <<[local |-> local_path, entries |-> node.entries]>> \o @]

\* ssh.rs:317-325: the connection, the sftp subsystem and the stat of the
\* remote path
SftpStat ==
    /\ sftp.pc = "start"
    /\ \E ok \in BOOLEAN :
          sftp' = IF ok /\ sftp.remote.kind # "none"
                  THEN [sftp EXCEPT !.pc = "stat"]
                  ELSE [sftp EXCEPT !.pc = "done", !.st = "Err",
                                    !.cause = IF ok THEN "stat" ELSE "connect"]
    /\ UNCHANGED <<renderVars, execVars, drv, shell, ssh, par, shown>>

\* ssh.rs:327-344: the remote path is a file.  The name of the remote file
\* is unwrapped (337): execute panics when the remote path has none.
SftpFile ==
    /\ sftp.pc = "stat" /\ sftp.remote.kind = "file"
    /\ \E outcome \in {"ok", "remote", "create", "write"},
          written \in 0..Len(sftp.remote.data) :
          sftp' = IF is_file(sftp.fs, sftp.local_path)
                  THEN [sftp EXCEPT !.pc = "done", !.st = "Err", !.cause = "exists"]
                  ELSE IF is_dir(sftp.fs, sftp.local_path) /\ ~file_name(sftp.remote_path).some
                  THEN [sftp EXCEPT !.pc = "done", !.st = "Panic", !.cause = "unwrap"]
                  ELSE LET s == download_sftp_file(sftp,
                                    download_target(sftp.fs, sftp.local_path, sftp.remote_path),
                                    sftp.remote, outcome, written)
                       IN  IF s.st = "Err" THEN s
                           ELSE [s EXCEPT !.pc = "done", !.st = "Ok"]
    /\ UNCHANGED <<renderVars, execVars, drv, shell, ssh, par, shown>>

\* ssh.rs:345-362: the remote path is a directory.  The parent of the local
\* path is unwrapped (351): execute panics when there is none.
SftpDir ==
    /\ sftp.pc = "stat" /\ sftp.remote.kind = "dir"
    /\ \E outcome \in {"ok", "mkdir", "readdir"} :
          sftp' = IF is_dir(sftp.fs, sftp.local_path)
                  THEN [sftp EXCEPT !.pc = "done", !.st = "Err", !.cause = "exists"]
                  ELSE IF ~parent(sftp.local_path).some
                  THEN [sftp EXCEPT !.pc = "done", !.st = "Panic", !.cause = "unwrap"]
                  ELSE IF ~is_dir(sftp.fs, parent(sftp.local_path).v)
                  THEN [sftp EXCEPT !.pc = "done", !.st = "Err", !.cause = "no parent"]
                  ELSE enter_dir(sftp, sftp.local_path, sftp.remote, outcome)
    /\ UNCHANGED <<renderVars, execVars, drv, shell, ssh, par, shown>>

\* ssh.rs:363-368: the remote path is neither
SftpOther ==
    /\ sftp.pc = "stat" /\ sftp.remote.kind \notin {"file", "dir"}
    /\ sftp' = [sftp EXCEPT !.pc = "done", !.st = "Err", !.cause = "no remote"]
    /\ UNCHANGED <<renderVars, execVars, drv, shell, ssh, par, shown>>

\* download_sftp_dir, one turn of its loop: a file is downloaded into the
\* local directory, anything else is created as a directory and entered
SftpEntry ==
    /\ sftp.pc = "walk" /\ sftp.stack # <<>> /\ Head(sftp.stack).entries # <<>>
    /\ LET top == Head(sftp.stack)
           entry == Head(top.entries)
           rest == [sftp EXCEPT !.stack[1].entries = Tail(@)]
       IN  \/ /\ entry.node.kind = "file"
              /\ \E outcome \in {"ok", "remote", "create", "write"},
                    written \in 0..Len(entry.node.data) :
                    sftp' = download_sftp_file(rest, join(top.local, entry.name),
                                               entry.node, outcome, written)
           \/ /\ entry.node.kind # "file"
              /\ \E outcome \in {"ok", "mkdir", "readdir"} :
                    sftp' = enter_dir(rest, join(top.local, entry.name),
                                      entry.node, outcome)
    /\ UNCHANGED <<renderVars, execVars, drv, shell, ssh, par, shown>>

\* download_sftp_dir returns Ok(()) after its last entry; execute returns
\* Ok(()) after the outermost one
SftpReturn ==
    /\ sftp.pc = "walk" /\ sftp.stack # <<>> /\ Head(sftp.stack).entries = <<>>
    /\ sftp' = IF Len(sftp.stack) = 1
               THEN [sftp EXCEPT !.stack = <<>>, !.pc = "done", !.st = "Ok"]
               ELSE [sftp EXCEPT !.stack = Tail(@)]
    /\ UNCHANGED <<renderVars, execVars, drv, shell, ssh, par, shown>>

Names == {"a", "b"}
Inner == {RFile("2"), RDir(<<>>), RDir(<<Entry("a", RFile("3"))>>)}
NamePairs == {p \in Names \X Names : p[1] # p[2]}
RemoteDirs ==
    {RDir(<<>>)}
    \cup {RDir(<<Entry(n, x)>>) : n \in Names, x \in Inner \cup {RFile("12")}}
    \cup {RDir(<<Entry(p[1], RFile("12")), Entry(p[2], y)>>) : p \in NamePairs, y \in Inner}
    \cup {RDir(<<Entry(p[1], x), Entry(p[2], RFile("12"))>>) : p \in NamePairs, x \in Inner}
Remotes == {RMissing, ROther, RFile("12")} \cup RemoteDirs
SftpRemotePath == <<"r", "a">>
LocalPaths == {<<>>, <<"a">>, <<".", "a">>, <<"a", ".">>, <<"a", "b">>, <<"b", "a">>}
NoFiles == {}
LocalTrees ==
    {[dirs |-> {<<>>}, files |-> NoFiles],
     [dirs |-> {<<>>}, files |-> {[loc |-> <<"a">>, data |-> "0"]}],
     [dirs |-> {<<>>, <<"a">>}, files |-> NoFiles],
     [dirs |-> {<<>>, <<"a">>}, files |-> {[loc |-> <<"a", "a">>, data |-> "0"]}],
     [dirs |-> {<<>>, <<"a">>}, files |-> {[loc |-> <<"a", "b">>, data |-> "0"]}],
     [dirs |-> {<<>>, <<"a">>, <<"a", "b">>}, files |-> NoFiles],
     [dirs |-> {<<>>, <<"a">>, <<"a", "a">>}, files |-> NoFiles]}

InitSftp ==
    /\ \E remote \in Remotes, local_path \in LocalPaths, fs \in LocalTrees :
          sftp = [pc |-> "start", remote |-> remote, remote_path |-> SftpRemotePath,
                  local_path |-> local_path, fs |-> fs, fs0 |-> fs,
                  stack |-> <<>>, log |-> <<>>, st |-> "None", cause |-> ""]
    /\ shell = Idle /\ ssh = Idle /\ par = Idle /\ shown = Idle /\ drv = Idle
    /\ RenderIdle
    /\ ExecIdle

NextSftp == SftpStat \/ SftpFile \/ SftpDir \/ SftpOther \/ SftpEntry \/ SftpReturn

SpecSftp == InitSftp /\ [][NextSftp]_vars

(***************************************************************************)
(* C19, C20                                                                *)
(***************************************************************************)
\* execute got as far as the kind of the remote path
Statted == sftp.pc = "done" /\ sftp.cause \notin {"connect", "stat"}
\* what is at the locations other than `loc` is as it was
ElsewhereUntouched(loc) ==
    /\ sftp.fs.dirs = sftp.fs0.dirs
    /\ {f \in sftp.fs.files : f.loc # loc} = {f \in sftp.fs0.files : f.loc # loc}
\* the download wrote to `path` and nowhere else, and on success the file at
\* `path` has the data of the remote file
WroteOnlyTo(path) ==
    /\ \A i \in 1..Len(sftp.log) : sftp.log[i].op = "write" /\ sftp.log[i].path = path
    /\ ElsewhereUntouched(location(path))
    /\ sftp.st = "Ok" =>
          /\ sftp.log = <<LocalOp("write", path, TRUE)>>
          /\ FileAt(sftp.fs, location(path)) =
                {[loc |-> location(path), data |-> sftp.remote.data]}
    /\ sftp.log = <<>> => sftp.fs = sftp.fs0

\* C19: when the remote path is a regular file, a local path that is an
\* existing file makes execute fail with the already-exists error, nothing
\* written; a local path that is an existing directory makes it write to
\* local_path/<remote file name> and nowhere else; any other local path is
\* itself the one file written.
C19_RemoteFileTarget ==
    (Statted /\ sftp.remote.kind = "file") =>
        /\ is_file(sftp.fs0, sftp.local_path) =>
              /\ sftp.st = "Err" /\ sftp.cause = "exists"
              /\ sftp.fs = sftp.fs0 /\ sftp.log = <<>>
        /\ is_dir(sftp.fs0, sftp.local_path) =>
              WroteOnlyTo(join(sftp.local_path, file_name(sftp.remote_path).v))
        /\ (~is_file(sftp.fs0, sftp.local_path) /\ ~is_dir(sftp.fs0, sftp.local_path)) =>
              WroteOnlyTo(sftp.local_path)

\* the local path was a directory that already held a file of the remote
\* file's name, and the download has put the remote data there
C19_Witness ==
    /\ Statted /\ sftp.remote.kind = "file" /\ sftp.st = "Ok"
    /\ is_dir(sftp.fs0, sftp.local_path)
    /\ [loc |-> <<"a", "a">>, data |-> "0"] \in sftp.fs0.files
    /\ [loc |-> <<"a", "a">>, data |-> "12"] \in sftp.fs.files

\* the directory at `loc` holds what the remote directory `node` holds
RECURSIVE Mirrors(_, _, _)
Mirrors(fs, loc, node) ==
    /\ loc \in fs.dirs
    /\ \A i \in 1..Len(node.entries) :
          LET e == node.entries[i] IN
          IF e.node.kind = "file"
          THEN FileAt(fs, Append(loc, e.name)) =
                  {[loc |-> Append(loc, e.name), data |-> e.node.data]}
          ELSE Mirrors(fs, Append(loc, e.name), e.node)

\* the local target is a directory; the directory the local target lies in
\* is one
TargetExists == is_dir(sftp.fs0, sftp.local_path)
ParentExists ==
    LET loc == location(sftp.local_path) IN
    loc # <<>> /\ SubSeq(loc, 1, Len(loc) - 1) \in sftp.fs0.dirs

\* the tree is made top down, and nothing is tried after the first failure
TopDownUntilFailure ==
    /\ \A i \in 1..Len(sftp.log) :
          /\ i > 1 => \E j \in 1..(i - 1) :
                         sftp.log[j] = LocalOp("mkdir", SubSeq(sftp.log[i].path, 1,
                                                             Len(sftp.log[i].path) - 1), TRUE)
          /\ ~sftp.log[i].ok => i = Len(sftp.log) /\ sftp.st = "Err"
    /\ sftp.st = "Ok" => Mirrors(sftp.fs, location(sftp.local_path), sftp.remote)

\* C20: when the remote path is a directory, execute fails and leaves the
\* local file system as it was if the local target is an existing directory
\* or if the directory the target lies in does not exist; otherwise its
\* first act is to create the local directory, every subdirectory is created
\* before anything is put in it, the first failing step is the last step,
\* and a success leaves the remote tree mirrored.
C20_RemoteDirectoryMirrored ==
    (Statted /\ sftp.remote.kind = "dir") =>
        /\ (TargetExists \/ ~ParentExists) =>
              sftp.st \in {"Err", "Panic"} /\ sftp.fs = sftp.fs0 /\ sftp.log = <<>>
        /\ (~TargetExists /\ ParentExists) =>
              /\ sftp.log # <<>>
              /\ sftp.log[1].op = "mkdir" /\ sftp.log[1].path = sftp.local_path
              /\ TopDownUntilFailure

(***************************************************************************)
(* C29                                                                     *)
(***************************************************************************)
\* the cache stores under the identifier of the lookup at the same node
InsertAt(i) == IsEv(i, "insert")
SameId(i, j) == res.log[i].text = res.log[j].text
\* the !Id that inserts at i looked its identifier up, missed, and since
\* then its payload was resolved
MissBefore(i) ==
    \E h \in 1..(i - 1) :
        /\ IsEv(h, "lookup") /\ res.log[h].path = res.log[i].path
        /\ SameId(h, i) /\ ~res.log[h].flag
\* the cache at the end of the pass holds, for every identifier stored, the
\* value stored last, and nothing else
CacheIsLastInserts ==
    /\ \A i \in LogIdx : InsertAt(i) =>
          /\ contains_key(res.ids, res.log[i].text)
          /\ (\A j \in LogIdx : (InsertAt(j) /\ SameId(i, j)) => j <= i)
                => ids_get(res.ids, res.log[i].text) = res.log[i].tv
    /\ \A k \in 1..Len(res.ids) :
          \E i \in LogIdx : InsertAt(i) /\ res.log[i].text = res.ids[k].id

\* C29 as stated: in one pass no identifier is stored twice, so no entry is
\* ever overwritten, none is removed, and an identifier is stored only after
\* its !Id missed the cache and its payload was resolved.
C29_CacheEntryNeverOverwritten ==
    Resolved =>
        /\ \A i, j \in LogIdx : (InsertAt(i) /\ InsertAt(j) /\ SameId(i, j)) => i = j
        /\ \A i \in LogIdx : InsertAt(i) => MissBefore(i)
        /\ CacheIsLastInserts

\* C29 as amended: no entry is removed, an identifier is stored only after
\* its !Id missed the cache and its payload was resolved, and an entry is
\* overwritten only by an !Id of the same identifier that encloses, in its
\* value payload, the !Id that stored the entry.
C29_CacheOverwrittenOnlyByEnclosingId ==
    Resolved =>
        /\ \A i, j \in LogIdx :
              (InsertAt(i) /\ InsertAt(j) /\ SameId(i, j) /\ i < j) =>
                  /\ IsPrefix(res.log[j].path, res.log[i].path)
                  /\ res.log[j].path # res.log[i].path
        /\ \A i \in LogIdx : InsertAt(i) => MissBefore(i)
        /\ CacheIsLastInserts

\* an identifier was stored twice in the pass, and another !Id of it hit the
\* cache afterwards
C29_Witness ==
    /\ ResolvedOk
    /\ \E i, j, h \in LogIdx :
          /\ InsertAt(i) /\ InsertAt(j) /\ SameId(i, j) /\ i < j
          /\ j < h /\ IsEv(h, "lookup") /\ SameId(h, j) /\ res.log[h].flag

(***************************************************************************)
(* C30                                                                     *)
(***************************************************************************)
\* C30: when the remote path is a regular file, every file the local file
\* system held before the task ran is there afterwards with the data it had.
C30_LocalFilesKept ==
    (Statted /\ sftp.remote.kind = "file") =>
        \A f \in sftp.fs0.files : f \in sftp.fs.files

(***************************************************************************)
(* SFTP upload: `sftp-upload`.  The local path is a node as above (a file, *)
(* a directory with its entries in the order read_dir gives them, or       *)
(* nothing), the remote file system is the set of its directories and of   *)
(* its files, each at its path from the root.                              *)
(*   sftp.pc     "start", "checked", "connected", "walk" or "done"         *)
(*   sftp.rfs    the remote file system, sftp.rfs0 as it was at the start  *)
(*   sftp.stack  the calls of upload_sftp_directory                        *)
(*   sftp.log    the remote operations tried: "stat", "mkdir" and "write"  *)
(***************************************************************************)
\* a stat that sees directories only
stat_is_ok_for_dirs(rfs, path, answered) == answered /\ path \in rfs.dirs

\* sftp.stat(path).is_ok(): the request was answered and something is at
\* the path; a request that fails for any other reason is not ok either
stat_is_ok(rfs, path, answered) ==
    answered /\ (path \in rfs.dirs \/ FileAt(rfs, path) # {})

\* upload_sftp_file: the local file is opened and read, then the remote one
\* is created and written.  `outcome` is "ok", "local" when the open or the
\* read fails, "create" when the server refuses sftp.create, "write" when
\* write_all fails on the created file after `written` bytes: the remote
\* file keeps what was sent.  write_all fails only with bytes left.
upload_sftp_file(s, node, remote_path, outcome, written) ==
    IF outcome = "local"
    THEN [s EXCEPT !.pc = "done", !.st = "Err", !.cause = "upload", !.stack = <<>>]
    ELSE IF outcome = "create" \/ ~can_create_file(s.rfs, remote_path)
    THEN [s EXCEPT !.pc = "done", !.st = "Err", !.cause = "upload", !.stack = <<>>,
                   !.log = Append(@, LocalOp("write", remote_path, FALSE))]
    ELSE IF outcome = "write" /\ written < Len(node.data)
    THEN [s EXCEPT !.pc = "done", !.st = "Err", !.cause = "upload", !.stack = <<>>,
                   !.rfs = write_file(@, remote_path, SubSeq(node.data, 1, written)),
                   !.log = Append(@, LocalOp("write", remote_path, FALSE))]
    ELSE [s EXCEPT !.rfs = write_file(@, remote_path, node.data),
                   !.log = Append(@, LocalOp("write", remote_path, TRUE))]

\* sftp.mkdir(remote_path) and the call of upload_sftp_directory on it, up
\* to its read_dir.  `outcome` is "ok", "mkdir" when the server refuses the
\* mkdir, "read_dir" when the local directory cannot be read.
enter_remote_dir(s, node, remote_path, outcome) ==
    IF outcome = "mkdir" \/ ~can_create_dir(s.rfs, remote_path)
    THEN [s EXCEPT !.pc = "done", !.st = "Err", !.cause = "mkdir", !.stack = <<>>,
                   !.log = Append(@, LocalOp("mkdir", remote_path, FALSE))]
    ELSE IF outcome = "read_dir"
    THEN [s EXCEPT !.pc = "done", !.st = "Err", !.cause = "read_dir", !.stack = <<>>,
                   !.rfs = create_dir(@, remote_path),
                   !.log = Append(@, LocalOp("mkdir", remote_path, TRUE))]
    ELSE [s EXCEPT !.pc = "walk",
                   !.rfs = create_dir(@, remote_path),
                   !.log = Append(@, LocalOp("mkdir", remote_path, TRUE)),
                   !.stack = <<[remote |-> remote_path, entries |-> node.entries]>> \o @]

\* ssh.rs:466-471: the local path is neither a directory nor a file
SftpUpCheck ==
    /\ sftp.pc = "start"
    /\ sftp' = IF sftp.local.kind \notin {"dir", "file"}
               THEN [sftp EXCEPT !.pc = "done", !.st = "Err", !.cause = "no local"]
               ELSE [sftp EXCEPT !.pc = "checked"]
    /\ UNCHANGED <<renderVars, execVars, drv, shell, ssh, par, shown>>

\* ssh.rs:473-476: the connection and the sftp subsystem
SftpUpConnect ==
    /\ sftp.pc = "checked"
    /\ \E ok \in BOOLEAN :
          sftp' = IF ok THEN [sftp EXCEPT !.pc = "connected"]
                  ELSE [sftp EXCEPT !.pc = "done", !.st = "Err", !.cause = "connect"]
    /\ UNCHANGED <<renderVars, execVars, drv, shell, ssh, par, shown>>

\* ssh.rs:478-480: the local path is a file
SftpUpFile ==
    /\ sftp.pc = "connected" /\ sftp.local.kind = "file"
    /\ \E outcome \in {"ok", "local", "create", "write"},
          written \in 0..Len(sftp.local.data) :
          LET s == upload_sftp_file(sftp, sftp.local, sftp.remote_path, outcome, written)
          IN  sftp' = IF s.st = "Err" THEN s ELSE [s EXCEPT !.pc = "done", !.st = "Ok"]
    /\ UNCHANGED <<renderVars, execVars, drv, shell, ssh, par, shown>>

\* ssh.rs:481-491: the local path is a directory
SftpUpDir ==
    /\ sftp.pc = "connected" /\ sftp.local.kind # "file"
    /\ \E outcome \in {"ok", "mkdir", "read_dir"}, answered \in BOOLEAN :
          LET s == [sftp EXCEPT !.log = Append(@, LocalOp("stat", sftp.remote_path, answered))]
          IN  sftp' = IF stat_is_ok(sftp.rfs, sftp.remote_path, answered)
                      THEN [s EXCEPT !.pc = "done", !.st = "Err", !.cause = "exists"]
                      ELSE enter_remote_dir(s, sftp.local, sftp.remote_path, outcome)
    /\ UNCHANGED <<renderVars, execVars, drv, shell, ssh, par, shown>>

\* upload_sftp_directory, one turn of its loop
SftpUpEntry ==
    /\ sftp.pc = "walk" /\ sftp.stack # <<>> /\ Head(sftp.stack).entries # <<>>
    /\ LET top == Head(sftp.stack)
           entry == Head(top.entries)
           rest == [sftp EXCEPT !.stack[1].entries = Tail(@)]
       IN  \/ /\ entry.node.kind = "file"
              /\ \E outcome \in {"ok", "local", "create", "write"},
                    written \in 0..Len(entry.node.data) :
                    sftp' = upload_sftp_file(rest, entry.node,
                                             join(top.remote, entry.name), outcome, written)
           \/ /\ entry.node.kind # "file"
              /\ \E outcome \in {"ok", "mkdir", "read_dir"} :
                    sftp' = enter_remote_dir(rest, entry.node,
                                             join(top.remote, entry.name), outcome)
    /\ UNCHANGED <<renderVars, execVars, drv, shell, ssh, par, shown>>

\* upload_sftp_directory returns Ok(()) after its last entry
SftpUpReturn ==
    /\ sftp.pc = "walk" /\ sftp.stack # <<>> /\ Head(sftp.stack).entries = <<>>
    /\ sftp' = IF Len(sftp.stack) = 1
               THEN [sftp EXCEPT !.stack = <<>>, !.pc = "done", !.st = "Ok"]
               ELSE [sftp EXCEPT !.stack = Tail(@)]
    /\ UNCHANGED <<renderVars, execVars, drv, shell, ssh, par, shown>>

LocalNodes == {RMissing, RFile("12")} \cup RemoteDirs
RemoteTrees ==
    {[dirs |-> {<<>>}, files |-> NoFiles],
     [dirs |-> {<<>>, <<"r">>}, files |-> NoFiles],
     [dirs |-> {<<>>, <<"r">>}, files |-> {[loc |-> <<"r", "a">>, data |-> "0"]}],
     [dirs |-> {<<>>, <<"r">>, <<"r", "a">>}, files |-> NoFiles],
     [dirs |-> {<<>>, <<"r">>, <<"r", "a">>},
      files |-> {[loc |-> <<"r", "a", "b">>, data |-> "0"]}]}

InitSftpUpload ==
    /\ \E local \in LocalNodes, rfs \in RemoteTrees :
          sftp = [pc |-> "start", local |-> local, remote_path |-> SftpRemotePath,
                  rfs |-> rfs, rfs0 |-> rfs,
                  stack |-> <<>>, log |-> <<>>, st |-> "None", cause |-> ""]
    /\ shell = Idle /\ ssh = Idle /\ par = Idle /\ shown = Idle /\ drv = Idle
    /\ RenderIdle
    /\ ExecIdle

NextSftpUpload ==
    SftpUpCheck \/ SftpUpConnect \/ SftpUpFile \/ SftpUpDir \/ SftpUpEntry \/ SftpUpReturn

SpecSftpUpload == InitSftpUpload /\ [][NextSftpUpload]_vars

(***************************************************************************)
(* C21                                                                     *)
(***************************************************************************)
\* the stat of the remote path was answered
StatAnswered == sftp.log # <<>> /\ sftp.log[1] = LocalOp("stat", sftp.remote_path, TRUE)

\* C21: the upload of a local directory, once connected, to a remote path
\* where the server has a directory or a file and answers the stat fails
\* with the already-exists error: no mkdir and no write was tried and the
\* remote side is as it was.
C21_ExistingRemoteRefusesDirectory ==
    (/\ sftp.pc = "done" /\ StatAnswered
     /\ sftp.local.kind = "dir"
     /\ (sftp.remote_path \in sftp.rfs0.dirs \/ FileAt(sftp.rfs0, sftp.remote_path) # {}))
    => /\ sftp.st = "Err" /\ sftp.cause = "exists"
       /\ Len(sftp.log) = 1 /\ sftp.rfs = sftp.rfs0

\* a local directory with entries was refused because a file is at the
\* remote path
C21_Witness ==
    /\ sftp.pc = "done" /\ sftp.cause = "exists" /\ StatAnswered
    /\ sftp.local.kind = "dir" /\ Len(sftp.local.entries) = 2
    /\ FileAt(sftp.rfs0, sftp.remote_path) # {}

(***************************************************************************)
(* Part IV.  The driver: main.rs and the parser of yaml_parser/mod.rs.     *)
(*                                                                         *)
(* The document is read, resolved (Resolve of Part I) and parsed into      *)
(* jobs; the job asked for is then executed by the actions of Part II.     *)
(* parse_job, parse_task and parse_os_dependent call one another; their    *)
(* calls in progress are the frames of drv.frames, the innermost first.    *)
(*   drv.pc      "args", "file", "parse", "parsed", "run", "exited",       *)
(*               "panicked"                                                *)
(*               or "overflow" (an endless recursion ran out of stack)     *)
(*   drv.args    whether the command line is as declared: "given", or      *)
(*               "usage" or "help" when clap ends the process              *)
(*   drv.file    the path given: whether it exists and is a file, and its  *)
(*               extension                                                 *)
(*   drv.yaml    whether the file is well-formed YAML                      *)
(*   drv.wanted  the job name given on the command line                    *)
(*   drv.k       the top-level key parse_jobs is at                        *)
(*   drv.jobs    the jobs parsed so far                                    *)
(*   drv.frames  [what, name, os, seq, idx, children]: a parse_job or      *)
(*               parse_os_dependent call, the sequence it loops over, the  *)
(*               item it is at and the tasks it has parsed                 *)
(*   drv.cause   the innermost parsing error                               *)
(*   drv.exit    the exit status of the process, -1 while it runs          *)
(***************************************************************************)
\* the calls of the parser after which an endless recursion is cut short
MaxStack == 4
\* the most tasks of a job of the documents
MaxTasks == 2

KeyIgnore == <<"I", "G", "N", "O", "R", "E">>
KindBash == <<"b", "a", "s", "h">>
KindCmd == <<"c", "m", "d">>
KindOnWindows == <<"o", "n", "-", "w", "i", "n", "d", "o", "w", "s">>
KindOnLinux == <<"o", "n", "-", "l", "i", "n", "u", "x">>
KindSsh == <<"s", "s", "h">>
KindScpDownload == <<"s", "c", "p", "-", "d", "o", "w", "n", "l", "o", "a", "d">>
KindScpUpload == <<"s", "c", "p", "-", "u", "p", "l", "o", "a", "d">>
KindSftpDownload == <<"s", "f", "t", "p", "-", "d", "o", "w", "n", "l", "o", "a", "d">>
KindSftpUpload == <<"s", "f", "t", "p", "-", "u", "p", "l", "o", "a", "d">>
KindPrint == <<"p", "r", "i", "n", "t">>
\* the keys parse_task has a branch for
TaskKinds ==
    {KindBash, KindCmd, KindOnWindows, KindOnLinux, KindSsh, KindScpDownload,
     KindScpUpload, KindSftpDownload, KindSftpUpload, KindPrint}
RemoteKinds == {KindSsh, KindScpDownload, KindScpUpload, KindSftpDownload, KindSftpUpload}

LeafOf(kind) == [kind |-> kind, name |-> "", os |-> "", children |-> <<>>]
ParsedOk(task) == [st |-> "Ok", task |-> task, cause |-> ""]
ParsingError(cause) == [st |-> "Err", task |-> Null, cause |-> cause]

\* yaml_parser/mod.rs:232-240
parse_print(value) ==
    IF value.k = "String" THEN ParsedOk(PrintTask)
    ELSE ParsingError("print value is not a string")

KeyUsername == Str(<<"u", "s", "e", "r", "n", "a", "m", "e">>)
KeyPassword == Str(<<"p", "a", "s", "s", "w", "o", "r", "d">>)
KeyAddress == Str(<<"a", "d", "d", "r", "e", "s", "s">>)
KeyCommands == Str(<<"c", "o", "m", "m", "a", "n", "d", "s">>)
KeyRemotePath == Str(<<"r", "e", "m", "o", "t", "e", "_", "p", "a", "t", "h">>)
KeyLocalPath == Str(<<"l", "o", "c", "a", "l", "_", "p", "a", "t", "h">>)

\* one of the four numbers of an address: one to three decimal digits, no
\* zero in front of another digit, 255 at most
is_octet(chars) ==
    /\ Len(chars) \in 1..3
    /\ \A i \in 1..Len(chars) : \E d \in 1..10 : DecimalDigits[d] = chars[i]
    /\ Len(chars) > 1 => chars[1] # "0"
    /\ LET digit(i) == (CHOOSE d \in 1..10 : DecimalDigits[d] = chars[i]) - 1
           number == IF Len(chars) = 1 THEN digit(1)
                     ELSE IF Len(chars) = 2 THEN 10 * digit(1) + digit(2)
                     ELSE 100 * digit(1) + 10 * digit(2) + digit(3)
       IN  number <= 255

\* Ipv4Addr::from_str(..).is_ok(): four such numbers with a dot between them
is_ipv4(chars) ==
    LET dots == {i \in 1..Len(chars) : chars[i] = "."} IN
    /\ Cardinality(dots) = 3
    /\ LET d1 == CHOOSE i \in dots : \A h \in dots : i <= h
           d3 == CHOOSE i \in dots : \A h \in dots : i >= h
           d2 == CHOOSE i \in dots : i # d1 /\ i # d3
       IN  /\ is_octet(SubSeq(chars, 1, d1 - 1))
           /\ is_octet(SubSeq(chars, d1 + 1, d2 - 1))
           /\ is_octet(SubSeq(chars, d2 + 1, d3 - 1))
           /\ is_octet(SubSeq(chars, d3 + 1, Len(chars)))

\* the error of the first of the entries that is missing or is no
\* Value::String, "" when there is none
string_entries(map, keys, names) ==
    LET bad == {i \in 1..Len(keys) :
                   ~get_entry(map, keys[i]).some \/ get_entry(map, keys[i]).v.k # "String"}
    IN  IF bad = {} THEN ""
        ELSE LET i == CHOOSE i \in bad : \A h \in bad : i <= h IN
             IF get_entry(map, keys[i]).some THEN names[i] \o " is not a string"
             ELSE names[i] \o " is not given"

\* yaml_parser/mod.rs:247-273 and 304-330: username, password and address
remote_entries(map) ==
    LET cause == string_entries(map, <<KeyUsername, KeyPassword, KeyAddress>>,
                                <<"username", "password", "address">>)
    IN  IF cause # "" THEN cause
        ELSE IF ~is_ipv4(get_entry(map, KeyAddress).v.s) THEN "invalid IPv4 address syntax"
        ELSE ""

\* yaml_parser/mod.rs:242-298
parse_remote_transfer(value) ==
    IF ~is_mapping(value) THEN ParsingError("Value is not of type Mapping")
    ELSE LET cause == remote_entries(untag_ref(value))
             paths == string_entries(untag_ref(value), <<KeyRemotePath, KeyLocalPath>>,
                                     <<"remote_path", "local_path">>)
         IN  IF cause # "" THEN ParsingError(cause)
             ELSE IF paths # "" THEN ParsingError(paths)
             ELSE ParsedOk(LeafOf("Remote"))

\* yaml_parser/mod.rs:300-347
parse_ssh(value) ==
    IF ~is_mapping(value) THEN ParsingError("Value is not of type Mapping")
    ELSE LET cause == remote_entries(untag_ref(value))
             commands == get_entry(untag_ref(value), KeyCommands)
         IN  IF cause # "" THEN ParsingError(cause)
             ELSE IF ~commands.some THEN ParsingError("commands are not given")
             ELSE IF ~is_sequence(commands.v) THEN ParsingError("commands are not a sequence")
             ELSE LET r == parse_commands(untag_ref(commands.v).c, 1, <<>>) IN
                  IF r.st = "Ok" THEN ParsedOk(LeafOf("Remote"))
                  ELSE [st |-> r.st, task |-> Null, cause |-> "ssh command"]

\* the branches of parse_task for the tasks without children (134-219)
parse_leaf(kind, value) ==
    CASE kind = KindBash ->
            IF parse_shell_command_task(value).st = "Ok" THEN ParsedOk(BashTask)
            ELSE ParsingError("Error with bash task")
      [] kind = KindCmd ->
            IF parse_shell_command_task(value).st = "Ok" THEN ParsedOk(LeafOf("Cmd"))
            ELSE ParsingError("Error with cmd task")
      [] kind = KindPrint -> parse_print(value)
      [] kind = KindSsh -> parse_ssh(value)
      [] OTHER -> parse_remote_transfer(value)

ParseFrame(what, name, os, seq) ==
    [what |-> what, name |-> name, os |-> os, seq |-> seq, idx |-> 1, children |-> <<>>]

\* parse_jobs panics: `Err(error) => panic!("Error: {}", error)`
Panicked(d, cause) ==
    [d EXCEPT !.pc = "panicked", !.cause = cause, !.frames = <<>>, !.exit = 101]

\* a further call of parse_job or parse_os_dependent.  The stack of the
\* process has room for the calls of any document without a cycle; a call of
\* parse_job for a job that is already being parsed repeats itself without
\* end, and at MaxStack calls the recursion is taken to have used the stack
\* up: the process dies of the stack overflow.
Called(d, frame) ==
    IF /\ Len(d.frames) >= MaxStack
       /\ frame.what = "job"
       /\ \E i \in 1..Len(d.frames) :
              d.frames[i].what = "job" /\ d.frames[i].name = frame.name
    THEN [d EXCEPT !.pc = "overflow", !.exit = 134]
    ELSE [d EXCEPT !.frames = <<frame>> \o @]

\* a kind that is taken for a shell command whatever it is called
task_kind_lenient(kind) == IF kind \in TaskKinds THEN kind ELSE KindBash

\* yaml_parser/mod.rs:133-226: the branch of the match on the task key
task_kind(kind) == IF kind \in TaskKinds THEN kind ELSE <<>>

\* a parser that passes over no key
is_ignored_never(root_key) == FALSE

\* yaml_parser/mod.rs:60-62: `if root_key.as_str().unwrap() == "IGNORE" { continue; }`
is_ignored(root_key) == root_key = KeyIgnore

\* a parser that takes a reference to a job it is already parsing for a job
\* without tasks
parse_job_call_once(d, root_map, name) ==
    LET job_entry == get_entry(root_map, Str(name)) IN
    IF ~job_entry.some THEN Panicked(d, "Job not found")
    ELSE IF ~is_sequence(job_entry.v) THEN Panicked(d, "is not a sequence")
    ELSE IF \E i \in 1..Len(d.frames) : d.frames[i].what = "job" /\ d.frames[i].name = name
    THEN [d EXCEPT !.frames[1].children = Append(@, JobTask(name, <<>>)),
                   !.frames[1].idx = @ + 1]
    ELSE Called(d, ParseFrame("job", name, "", untag_ref(job_entry.v).c))

\* parse_job (75-89) called with `name`: the entry of the root map must be
\* there and be a sequence
parse_job_call(d, root_map, name) ==
    LET job_entry == get_entry(root_map, Str(name)) IN
    IF ~job_entry.some THEN Panicked(d, "Job not found")
    ELSE IF ~is_sequence(job_entry.v) THEN Panicked(d, "is not a sequence")
    ELSE Called(d, ParseFrame("job", name, "", untag_ref(job_entry.v).c))

\* parse_task (107-230) on one item of a job or of an OS branch
parse_task(d, root_map, value) ==
    IF is_string(value) THEN parse_job_call(d, root_map, as_str(value))
    ELSE IF ~is_mapping(value) THEN Panicked(d, "Task is not of type Mapping")
    ELSE IF untag_ref(value).keys = <<>> THEN Panicked(d, "Task could not be parsed")
    ELSE
    LET task_key == untag_ref(value).keys[1]
        task_value == untag_ref(value).c[1] IN
    IF ~is_string(task_key) THEN Panicked(d, "task has an issue with the name")
    ELSE
    LET kind == task_kind(as_str(task_key)) IN
    IF kind = <<>> THEN Panicked(d, "unrecognized task in")
    ELSE IF kind \in {KindOnWindows, KindOnLinux}
    THEN IF ~is_sequence(task_value) THEN Panicked(d, "value is not a sequence")
         ELSE Called(d, ParseFrame("os", <<>>,
                                   IF kind = KindOnWindows THEN "Windows" ELSE "Linux",
                                   untag_ref(task_value).c))
    ELSE LET r == parse_leaf(kind, task_value) IN
         IF r.st # "Ok" THEN Panicked(d, r.cause)
         ELSE [d EXCEPT !.frames[1].children = Append(@, r.task),
                        !.frames[1].idx = @ + 1]

KeyMerge == Str(<<"<", "<">>)

\* Mapping::remove, which is a swap_remove: the last entry takes the place
\* of the entry removed
swap_remove(map, i) ==
    LET n == Len(map.keys) IN
    IF i = n THEN [map EXCEPT !.keys = SubSeq(@, 1, n - 1), !.c = SubSeq(@, 1, n - 1)]
    ELSE [map EXCEPT !.keys = SubSeq([@ EXCEPT ![i] = map.keys[n]], 1, n - 1),
                     !.c = SubSeq([@ EXCEPT ![i] = map.c[n]], 1, n - 1)]

\* `for (k, v) in merge { mapping.entry(k).or_insert(v); }`: the entries of
\* merge from the i-th on are added at the end unless their key is there
RECURSIVE or_insert_all(_, _, _)
or_insert_all(map, merge, i) ==
    IF i > Len(merge.keys) THEN map
    ELSE or_insert_all(IF HasEntry(map, merge.keys[i]) THEN map
                       ELSE [map EXCEPT !.keys = Append(@, merge.keys[i]),
                                        !.c = Append(@, merge.c[i])],
                       merge, i + 1)

\* the mappings of a sequence under `<<` are merged in turn; any other item
\* is an error
RECURSIVE merge_sequence(_, _, _)
merge_sequence(map, items, i) ==
    IF i > Len(items) THEN [st |-> "Ok", v |-> map]
    ELSE IF items[i].k # "Mapping" THEN [st |-> "Err", v |-> map]
    ELSE merge_sequence(or_insert_all(map, items[i], 1), items, i + 1)

\* the `<<` entry of a mapping is removed and what it holds is merged in
merge_entry(map) ==
    IF ~HasEntry(map, KeyMerge) THEN [st |-> "Ok", v |-> map]
    ELSE LET merge == get_entry(map, KeyMerge).v
             rest == swap_remove(map, EntryIndex(map, KeyMerge))
         IN  CASE merge.k = "Mapping" -> [st |-> "Ok", v |-> or_insert_all(rest, merge, 1)]
               [] merge.k = "Sequence" -> merge_sequence(rest, merge.c, 1)
               [] OTHER -> [st |-> "Err", v |-> rest]

\* Value::apply_merge: every mapping of the document has its `<<` entry
\* merged, then its values are gone through; sequences and tagged values
\* are gone through as well
RECURSIVE apply_merge(_)
RECURSIVE apply_merge_items(_, _)
apply_merge_items(items, i) ==
    IF i > Len(items) THEN [st |-> "Ok", items |-> items]
    ELSE LET r == apply_merge(items[i]) IN
         IF r.st # "Ok" THEN [st |-> "Err", items |-> items]
         ELSE apply_merge_items([items EXCEPT ![i] = r.v], i + 1)
apply_merge(value) ==
    CASE value.k = "Mapping" ->
            LET merged == merge_entry(value)
                r == apply_merge_items(merged.v.c, 1)
            IN  IF merged.st # "Ok" \/ r.st # "Ok" THEN [st |-> "Err", v |-> value]
                ELSE [st |-> "Ok", v |-> [merged.v EXCEPT !.c = r.items]]
      [] value.k \in {"Sequence", "Tagged"} ->
            LET r == apply_merge_items(value.c, 1) IN
            IF r.st # "Ok" THEN [st |-> "Err", v |-> value]
            ELSE [st |-> "Ok", v |-> [value EXCEPT !.c = r.items]]
      [] OTHER -> [st |-> "Ok", v |-> value]

ExtYml == <<"y", "m", "l">>
ExtYaml == <<"y", "a", "m", "l">>
\* the path given on the command line: Path::exists, Path::is_file and
\* Path::extension of it, and whether Path::to_str gives it (the path is
\* valid UTF-8)
PathGiven(exists, file, extension, utf8) ==
    [exists |-> exists, is_file |-> file, extension |-> extension, utf8 |-> utf8]

\* cli.rs:23-38, called at main.rs:20.  Args::parse ends the process itself
\* when the command line is not as declared: with status 2 and the usage
\* when an argument is missing or unknown, with status 0 for --help.  Then
\* the file must exist, be a file and have the extension yml or yaml, or
\* the process exits with -1; the unwrap of the extension of a name that
\* has none panics, and so does, in each message, the unwrap of to_str()
\* of a path that is not valid UTF-8 (27, 30, 33).
DrvArgs ==
    /\ drv.pc = "args"
    /\ drv' = CASE drv.args = "help" ->
                     [drv EXCEPT !.pc = "exited", !.cause = "help", !.exit = 0]
                [] drv.args = "usage" ->
                     [drv EXCEPT !.pc = "exited", !.cause = "usage", !.exit = 2]
                [] ~drv.file.exists \/ ~drv.file.is_file ->
                     IF drv.file.utf8
                     THEN [drv EXCEPT !.pc = "exited", !.cause = "args", !.exit = 255]
                     ELSE Panicked(drv, "unwrap")
                [] ~drv.file.extension.some -> Panicked(drv, "unwrap")
                [] drv.file.extension.v \notin {ExtYml, ExtYaml} ->
                     IF drv.file.utf8
                     THEN [drv EXCEPT !.pc = "exited", !.cause = "args", !.exit = 255]
                     ELSE Panicked(drv, "unwrap")
                [] OTHER -> [drv EXCEPT !.pc = "file"]
    /\ UNCHANGED <<renderVars, execVars, shell, ssh, par, shown, sftp>>

\* yaml_parser/mod.rs:45-50: serde_yaml::from_reader(file).unwrap() and
\* value.apply_merge().unwrap()
DrvRead ==
    /\ drv.pc = "file" /\ phase = "file"
    /\ IF drv.yaml /\ apply_merge(doc).st = "Ok"
       THEN /\ phase' = "loaded"
            /\ doc' = apply_merge(doc).v
            /\ drv' = [drv EXCEPT !.pc = "parse"]
       ELSE /\ phase' = "idle"
            /\ doc' = doc
            /\ drv' = Panicked(drv, IF drv.yaml THEN "merge" ELSE "yaml")
    /\ UNCHANGED <<stdin, res, execVars, shell, ssh, par, shown, sftp>>

\* yaml_parser/mod.rs:479: value.as_mapping(), which looks through a tag
RootMap == untag_ref(res.v)

\* parse_jobs (52-73), one turn of its loop: the key must be a string,
\* IGNORE is passed over, any other key is parsed as a job; after the last
\* key jobs_from_file returns
DrvNextKey ==
    /\ drv.pc = "parse" /\ phase = "resolved" /\ drv.frames = <<>>
    /\ drv' =
          IF res.st = "Panic" THEN Panicked(drv, "render")
          ELSE IF ~is_mapping(res.v) THEN Panicked(drv, "not a mapping")
          ELSE IF drv.k > Len(RootMap.keys) THEN [drv EXCEPT !.pc = "parsed"]
          ELSE IF ~is_string(RootMap.keys[drv.k]) THEN Panicked(drv, "not a valid string as name")
          ELSE IF is_ignored(as_str(RootMap.keys[drv.k])) THEN [drv EXCEPT !.k = @ + 1]
          ELSE parse_job_call(drv, RootMap, as_str(RootMap.keys[drv.k]))
    /\ UNCHANGED <<renderVars, execVars, shell, ssh, par, shown, sftp>>

\* the loops of parse_job (93-103) and parse_os_dependent (423-433), one
\* item: parse_task is called on it
DrvParseTask ==
    /\ drv.pc = "parse" /\ drv.frames # <<>>
    /\ drv.frames[1].idx <= Len(drv.frames[1].seq)
    /\ drv' = parse_task(drv, RootMap, drv.frames[1].seq[drv.frames[1].idx])
    /\ UNCHANGED <<renderVars, execVars, shell, ssh, par, shown, sftp>>

\* parse_job returns Ok(job) (104), parse_os_dependent Ok(task) (435): the
\* caller adds the task to its children, parse_jobs pushes the job (67)
DrvParseReturn ==
    /\ drv.pc = "parse" /\ drv.frames # <<>>
    /\ drv.frames[1].idx > Len(drv.frames[1].seq)
    /\ LET top == drv.frames[1]
           task == IF top.what = "job" THEN JobTask(top.name, top.children)
                   ELSE OSDependent(top.os, top.children)
       IN  drv' = IF Len(drv.frames) = 1
                  THEN [drv EXCEPT !.frames = <<>>, !.jobs = Append(@, task), !.k = @ + 1]
                  ELSE [drv EXCEPT !.frames = [Tail(drv.frames) EXCEPT
                                                  ![1].children = Append(@, task),
                                                  ![1].idx = @ + 1]]
    /\ UNCHANGED <<renderVars, execVars, shell, ssh, par, shown, sftp>>

\* main.rs:29-43: the first job of the name asked for is executed; when there
\* is none the message is printed and main returns
DrvSelect ==
    /\ drv.pc = "parsed"
    /\ LET found == {i \in 1..Len(drv.jobs) : drv.jobs[i].name = drv.wanted} IN
       IF found = {}
       THEN /\ drv' = [drv EXCEPT !.pc = "exited", !.cause = "not found", !.exit = 0]
            /\ UNCHANGED <<job, proc>>
       ELSE /\ drv' = [drv EXCEPT !.pc = "run"]
            /\ job' = drv.jobs[CHOOSE i \in found : \A h \in found : i <= h]
            /\ proc' = "ready"
    /\ UNCHANGED <<renderVars, host, stack, trace, result, shell, ssh, par, shown, sftp>>

\* the process ends: execute has returned an error and main exits with 1
\* (main.rs:35-38), main returns after execute (main.rs:39), a failing
\* command has called process::exit(-1), or a panic has unwound main
DrvExit ==
    /\ drv.pc = "run" /\ proc \in {"returned", "exited", "panicked"}
    /\ drv' = [drv EXCEPT !.pc = "exited",
                          !.exit = CASE proc = "returned" /\ result.kind = "err" -> 1
                                     [] proc = "returned" -> 0
                                     [] proc = "exited" -> 255
                                     [] OTHER -> 101]
    /\ UNCHANGED <<renderVars, execVars, shell, ssh, par, shown, sftp>>

\* task entries of the documents
NameA == <<"a">>
NameB == <<"b">>
NameNone == <<"z">>
TPrint == MapV(<<Str(KindPrint)>>, <<Str(<<"h">>)>>)
TBash == MapV(<<Str(KindBash)>>, <<Str(<<"l", "s">>)>>)
TUnknown == MapV(<<Str(<<"f", "r", "o", "b">>)>>, <<Str(<<"h">>)>>)
TLinux(items) == MapV(<<Str(KindOnLinux)>>, <<SeqV(items)>>)
TWindows(items) == MapV(<<Str(KindOnWindows)>>, <<SeqV(items)>>)
TPrintBadTag == MapV(<<Str(KindPrint)>>, <<Tagged("!Foo", Str(<<"h">>))>>)
TPrintId == MapV(<<Str(KindPrint)>>, <<Tagged("!Id", SeqV(<<Str(<<"x">>), Str(<<"h">>)>>))>>)
\* remote tasks the parser refuses: no username, an address that is none
TSshEmpty == MapV(<<Str(KindSsh)>>, <<MapV(<<>>, <<>>)>>)
TScpBadAddress ==
    MapV(<<Str(KindScpDownload)>>,
         <<MapV(<<KeyUsername, KeyPassword, KeyAddress, KeyRemotePath, KeyLocalPath>>,
                <<Str(<<"u">>), Str(<<"p">>), Str(<<"1", ".", "2", ".", "3">>),
                  Str(<<"r">>), Str(<<"l">>)>>)>>)
TasksOfA ==
    {TPrint, TBash, TUnknown, Str(NameA), Str(NameB), TLinux(<<Str(NameB)>>),
     TWindows(<<TBash>>), TPrintBadTag, TPrintId, TSshEmpty, TScpBadAddress}
BodiesOfA == {SeqV(s) : s \in SeqsOf(TasksOfA, 0, MaxTasks)}
BodiesOfB == {SeqV(<<TPrint>>), SeqV(<<Str(NameA)>>), SeqV(<<TUnknown>>), SeqV(<<TBash, TPrintId>>)}
\* what the reserved key holds: no task sequence, a task sequence, or one
\* with a tag that the resolver does not know
IgnoredPlain == MapV(<<Str(<<"x">>)>>, <<TUnknown>>)
IgnoredTasks == SeqV(<<TPrint>>)
IgnoredBadTag == SeqV(<<Tagged("!Foo", Str(<<"h">>))>>)
\* documents with a merge key, and one under a tag the resolver does not know
MergeDocs ==
    {MapV(<<KeyMerge, Str(NameB), Str(KeyIgnore)>>,
          <<MapV(<<Str(NameA)>>, <<SeqV(<<TPrint>>)>>), SeqV(<<Str(NameA)>>), IgnoredPlain>>),
     MapV(<<KeyMerge, Str(NameB)>>,
          <<SeqV(<<MapV(<<Str(NameB), Str(NameA)>>, <<SeqV(<<TBash>>), SeqV(<<TBash>>)>>)>>),
            SeqV(<<TPrint>>)>>),
     MapV(<<KeyMerge, Str(NameA)>>, <<Str(<<"x">>), SeqV(<<TPrint>>)>>),
     MapV(<<Str(NameA)>>, <<SeqV(<<MapV(<<Str(KindPrint), KeyMerge>>,
                                        <<Str(<<"h">>), SeqV(<<Num>>)>>)>>)>>),
     Tagged("!Foo", MapV(<<Str(NameA)>>, <<SeqV(<<TPrint>>)>>))}
DriverDocs ==
    UNION {{MapV(<<Str(NameA), Str(NameB)>>, <<x, y>>),
            MapV(<<Str(NameB), Str(NameA)>>, <<y, x>>),
            MapV(<<Str(KeyIgnore), Str(NameA), Str(NameB)>>, <<IgnoredPlain, x, y>>),
            MapV(<<Str(NameA), Str(KeyIgnore), Str(NameB)>>, <<x, IgnoredBadTag, y>>),
            MapV(<<Str(NameA), Str(KeyIgnore)>>, <<x, IgnoredTasks>>)} : x \in BodiesOfA, y \in BodiesOfB}
    \cup MergeDocs
\* a file that is no YAML at all stands for itself
Unreadable == Null

\* the files of the command line: a yml and a yaml file, a name that is
\* not there, a directory, a file without extension (as .yml is one), and
\* files with another extension
YmlFile == PathGiven(TRUE, TRUE, Some(ExtYml), TRUE)
YamlFile == PathGiven(TRUE, TRUE, Some(ExtYaml), TRUE)
FilesGiven ==
    {YmlFile, YamlFile,
     PathGiven(FALSE, FALSE, Some(ExtYml), TRUE), PathGiven(FALSE, FALSE, None, TRUE),
     PathGiven(TRUE, FALSE, Some(ExtYml), TRUE), PathGiven(TRUE, FALSE, None, TRUE),
     PathGiven(TRUE, TRUE, None, TRUE),
     PathGiven(TRUE, TRUE, Some(<<"Y", "M", "L">>), TRUE),
     PathGiven(TRUE, TRUE, Some(<<"t", "x", "t">>), TRUE),
     PathGiven(FALSE, FALSE, Some(ExtYml), FALSE), PathGiven(TRUE, FALSE, Some(ExtYml), FALSE),
     PathGiven(TRUE, TRUE, None, FALSE),
     PathGiven(TRUE, TRUE, Some(<<"t", "x", "t">>), FALSE),
     PathGiven(TRUE, TRUE, Some(ExtYml), FALSE)}
\* the command line: both arguments given, one missing or unknown, --help
ArgsGiven == {"given", "usage", "help"}

InitDriver ==
    /\ \E wanted \in {NameA, NameB, NameNone} :
          \/ /\ doc \in DriverDocs
             /\ drv = [pc |-> "args", args |-> "given", file |-> YmlFile, yaml |-> TRUE,
                       wanted |-> wanted,
                       k |-> 1, jobs |-> <<>>, frames |-> <<>>, cause |-> "", exit |-> -1]
          \/ /\ doc \in MergeDocs
             /\ drv = [pc |-> "args", args |-> "given", file |-> YamlFile, yaml |-> TRUE,
                       wanted |-> wanted,
                       k |-> 1, jobs |-> <<>>, frames |-> <<>>, cause |-> "", exit |-> -1]
          \/ /\ doc = Unreadable
             /\ \E args \in ArgsGiven, file \in FilesGiven :
                   drv = [pc |-> "args", args |-> args, file |-> file, yaml |-> FALSE,
                          wanted |-> wanted,
                          k |-> 1, jobs |-> <<>>, frames |-> <<>>, cause |-> "", exit |-> -1]
    /\ stdin = <<>>
    /\ phase = "file"
    /\ res = NoResult
    /\ job = Null
    /\ host \in Hosts
    /\ stack = <<>>
    /\ trace = <<>>
    /\ proc = "idle"
    /\ result = NoReturn
    /\ shell = Idle /\ ssh = Idle /\ par = Idle /\ shown = Idle /\ sftp = Idle

NextDriver ==
    \/ DrvArgs \/ DrvRead \/ Resolve \/ DrvNextKey \/ DrvParseTask \/ DrvParseReturn
    \/ DrvSelect \/ DrvExit
    \/ MainExecute \/ BashExecute \/ PrintExecute \/ JobExecute \/ JobReturn
    \/ OSDependentExecute \/ OSDependentReturn

SpecDriver == InitDriver /\ [][NextDriver]_vars

(***************************************************************************)
(* Claims about the driver.                                                *)
(***************************************************************************)
\* a task specification whose key is a string parse_task has no branch for
UnknownKind(value) ==
    /\ is_mapping(value)
    /\ untag_ref(value).keys # <<>>
    /\ is_string(untag_ref(value).keys[1])
    /\ as_str(untag_ref(value).keys[1]) \notin TaskKinds

\* the items of a task sequence that are OS branches holding a sequence
BranchOf(value) ==
    /\ is_mapping(value)
    /\ untag_ref(value).keys # <<>>
    /\ is_string(untag_ref(value).keys[1])
    /\ as_str(untag_ref(value).keys[1]) \in {KindOnWindows, KindOnLinux}
    /\ is_sequence(untag_ref(value).c[1])

\* a task of unknown kind among the items, the OS branches included
RECURSIVE UnknownIn(_)
UnknownIn(items) ==
    \E i \in 1..Len(items) :
        \/ UnknownKind(items[i])
        \/ BranchOf(items[i]) /\ UnknownIn(untag_ref(untag_ref(items[i]).c[1]).c)

\* the top-level keys that name jobs
JobKeys(root_map) ==
    {i \in 1..Len(root_map.keys) :
        is_string(root_map.keys[i]) /\ as_str(root_map.keys[i]) # KeyIgnore}

\* some job of the document has a task of unknown kind
DocHasUnknown ==
    /\ phase = "resolved" /\ RootMap.k = "Mapping"
    /\ \E i \in JobKeys(RootMap) :
          is_sequence(RootMap.c[i]) /\ UnknownIn(untag_ref(RootMap.c[i]).c)

\* the item the parser is at
AtItem ==
    /\ drv.pc = "parse" /\ drv.frames # <<>>
    /\ drv.frames[1].idx <= Len(drv.frames[1].seq)

\* C22: a task whose key is none of the recognised kinds fails parsing with
\* the unknown-task error, and no task of a document holding such a task in
\* one of its jobs is ever executed: the driver never gets past parsing.
C22_UnknownKindFailsParsing ==
    /\ [](DocHasUnknown =>
            /\ drv.pc \in {"parse", "panicked", "overflow"}
            /\ trace = <<>> /\ proc = "idle")
    /\ [][AtItem /\ UnknownKind(drv.frames[1].seq[drv.frames[1].idx])
            => drv'.pc = "panicked" /\ drv'.cause = "unrecognized task in"]_vars

\* the second job of a document was refused for a task of unknown kind after
\* the first job, which has tasks, was parsed
C22_Witness ==
    /\ drv.pc = "panicked" /\ drv.cause = "unrecognized task in"
    /\ Len(drv.jobs) = 1 /\ drv.jobs[1].children # <<>>
    /\ drv.jobs[1].name = drv.wanted
    /\ trace = <<>>

\* the process has ended
ProcessEnded == drv.pc \in {"exited", "panicked", "overflow"}

\* C23: when a file and a job are given on the command line, the process
\* ends with status zero only when the job asked for was found and executed
\* to its end, and with a status other than zero when no job has the name,
\* when the document does not parse and when a task fails.
C23_ExitStatusTellsFailure ==
    (ProcessEnded /\ drv.args = "given") => (drv.exit = 0 <=> proc = "returned")

\* C24: parse_jobs returns one job for every top-level key other than IGNORE,
\* in the order of the document, so never a job named IGNORE; the key IGNORE
\* is passed over without a look at its value.
C24_OneJobPerKeyButIgnore ==
    /\ [](drv.pc \in {"parsed", "run", "exited"} /\ phase = "resolved" =>
            /\ Len(drv.jobs) = Cardinality(JobKeys(RootMap))
            /\ \A i \in 1..Len(drv.jobs) :
                  /\ drv.jobs[i].kind = "Job"
                  /\ drv.jobs[i].name # KeyIgnore
                  /\ \E h \in JobKeys(RootMap) :
                        /\ as_str(RootMap.keys[h]) = drv.jobs[i].name
                        /\ Cardinality({g \in JobKeys(RootMap) : g < h}) = i - 1)
    /\ [][/\ drv.pc = "parse" /\ phase = "resolved" /\ drv.frames = <<>>
          /\ RootMap.k = "Mapping" /\ drv.k <= Len(RootMap.keys)
          /\ as_str(RootMap.keys[drv.k]) = KeyIgnore
          => drv' = [drv EXCEPT !.k = @ + 1]]_vars

\* two jobs were returned in the order of their keys from a document whose
\* first key is IGNORE and holds a mapping, which is no task sequence
C24_Witness ==
    /\ drv.pc = "parsed" /\ Len(drv.jobs) = 2
    /\ Len(RootMap.keys) = 3 /\ as_str(RootMap.keys[1]) = KeyIgnore
    /\ ~is_sequence(RootMap.c[1])
    /\ drv.jobs[1].name = as_str(RootMap.keys[2])
    /\ drv.jobs[2].name = as_str(RootMap.keys[3])

\* C25: no task is executed unless the resolution of the whole document and
\* the parsing of all its jobs have succeeded, and the Id cache is as the
\* resolution pass left it.
C25_NothingRunsAfterFailure ==
    trace # <<>> =>
        /\ res.st = "Ok"
        /\ drv.pc \in {"run", "exited"}
        /\ Len(drv.jobs) = Cardinality(JobKeys(RootMap))

\* the job names the items refer to by a bare string, the OS branches included
RECURSIVE RefsIn(_)
RefsIn(items) ==
    UNION {IF is_string(items[i]) THEN {as_str(items[i])}
           ELSE IF BranchOf(items[i]) THEN RefsIn(untag_ref(untag_ref(items[i]).c[1]).c)
           ELSE {} : i \in 1..Len(items)}

\* the job names a job refers to
Refs(root_map, name) ==
    LET job_entry == get_entry(root_map, Str(name)) IN
    IF job_entry.some /\ is_sequence(job_entry.v) THEN RefsIn(untag_ref(job_entry.v).c)
    ELSE {}

\* the names reached from those of `names` by n references at most
RECURSIVE Reach(_, _, _)
Reach(root_map, names, n) ==
    IF n = 0 THEN names
    ELSE Reach(root_map, names \cup UNION {Refs(root_map, m) : m \in names}, n - 1)

\* the job reaches a job that refers to itself, directly or through others
CyclicFrom(root_map, name) ==
    \E m \in Reach(root_map, {name}, Len(root_map.keys)) :
        m \in Reach(root_map, Refs(root_map, m), Len(root_map.keys))

\* the parser is in a job it was already in
Reentered(frames) ==
    \E i, h \in 1..Len(frames) :
        /\ i < h
        /\ frames[i].what = "job" /\ frames[h].what = "job"
        /\ frames[i].name = frames[h].name

\* parse_jobs is at a job
AtJob ==
    /\ phase = "resolved" /\ RootMap.k = "Mapping"
    /\ drv.pc \in {"parse", "panicked", "overflow"}
    /\ drv.k \in JobKeys(RootMap)

\* the job parse_jobs is at
CurrentJob == as_str(RootMap.keys[drv.k])

\* no job that reaches a cycle was returned, and the stack is exhausted only
\* in a job that reaches one
CyclesNeverReturnJob ==
    /\ phase = "resolved" /\ RootMap.k = "Mapping" =>
          \A i \in 1..Len(drv.jobs) : ~CyclicFrom(RootMap, drv.jobs[i].name)
    /\ AtJob /\ drv.pc = "overflow" =>
          CyclicFrom(RootMap, CurrentJob) /\ Reentered(drv.frames)

\* C26 as stated: the parsing of a job ends, with a job or an error, when its
\* references are acyclic, and never ends when the job reaches a cycle.
C26_CycleNeverEnds ==
    /\ CyclesNeverReturnJob
    /\ AtJob /\ drv.pc = "panicked" => ~CyclicFrom(RootMap, CurrentJob)

\* C26, amended: the parsing of a job ends when its references are acyclic;
\* a job that reaches a cycle is never returned, and once the parser is in a
\* job a second time it stays so until the stack is exhausted.  Before that
\* it may still end with the error of a task that comes before the reference.
C26_ReenteredNeverEnds ==
    /\ [](CyclesNeverReturnJob)
    /\ [](Reentered(drv.frames) => drv.pc \in {"parse", "overflow"})
    /\ [][Reentered(drv.frames) => Reentered(drv'.frames)]_vars

\* the stack was exhausted in two jobs that refer to one another
C26_Witness ==
    /\ drv.pc = "overflow"
    /\ \E i, h \in 1..Len(drv.frames) :
          /\ drv.frames[i].what = "job" /\ drv.frames[h].what = "job"
          /\ drv.frames[i].name # drv.frames[h].name
    /\ Reentered(drv.frames)

(***************************************************************************)
(* Part V.  The remote tasks of tasks/ssh.rs, call by call.                *)
(*                                                                         *)
(* Every execute of ssh.rs is straight-line code in which each call that   *)
(* can fail is followed by `?`.  The calls of one invocation are the steps *)
(* of connect_ssh followed by the steps of the task; each step succeeds or *)
(* fails as the network, the remote side and the file system decide.       *)
(*   ssh.pc        "start", "connect", "steps" or "done"                   *)
(*   ssh.kind      the task: "ssh", "scp-download", "scp-upload",          *)
(*                 "sftp-download" or "sftp-upload"                        *)
(*   ssh.commands  the number of commands of an ssh task                   *)
(*   ssh.i         the step that is next                                   *)
(*   ssh.log       the calls made, each with its outcome                   *)
(*   ssh.local0    the file at local_path before the task: "absent" or     *)
(*                 its content; ssh.local is the file now, "directory"     *)
(*                 when a download made a directory there, "part" when a   *)
(*                 write stopped in the middle of the content              *)
(*   ssh.remote    what is at remote_path: "file" or "dir"                 *)
(*   ssh.contents  the buffer a download reads into                        *)
(*   ssh.st        "None", "Ok" or "Err"; ssh.cause the step that failed   *)
(***************************************************************************)
\* the most commands of an ssh task
MaxBatch == 2

\* ssh.rs:12-21: the calls of connect_ssh
connect_ssh == <<"tcp_connect", "session_new", "handshake", "userauth_password">>

\* ssh.rs:79-101 and 42: the calls of one command of an ssh task, and the
\* test of its exit code
execute_on_session ==
    <<"channel_session", "exec", "read_to_string", "wait_close", "exit_status",
      "allowed_exit_code">>

RECURSIVE commands_steps(_)
\* ssh.rs:110-114
commands_steps(n) == IF n = 0 THEN <<>> ELSE execute_on_session \o commands_steps(n - 1)

\* a download that opens the local file before anything is requested
scp_download_steps_create_first ==
    <<"file_create", "scp_recv", "read_to_end", "send_eof", "wait_eof", "close",
      "wait_close", "write_all">>

\* ssh.rs:173-196
scp_download_steps ==
    <<"scp_recv", "read_to_end", "send_eof", "wait_eof", "close", "wait_close",
      "file_create", "write_all">>

\* ssh.rs:245-272
scp_upload_steps ==
    <<"file_open", "file_read_to_end", "scp_send", "remote_write_all", "send_eof",
      "wait_eof", "close", "wait_close">>

\* ssh.rs:320-355: the SFTP subsystem is opened, the remote path is looked
\* at and the transfer of Part III follows
sftp_download_steps == <<"sftp", "stat", "transfer">>

\* ssh.rs:476-495
sftp_upload_steps == <<"sftp", "transfer">>

steps_of(kind, n) ==
    CASE kind = "ssh" -> commands_steps(n)
      [] kind = "scp-download" -> scp_download_steps
      [] kind = "scp-upload" -> scp_upload_steps
      [] kind = "sftp-download" -> sftp_download_steps
      [] OTHER -> sftp_upload_steps

\* the calls made on the file system of this machine
LocalSteps == {"file_create", "write_all", "file_open", "file_read_to_end", "local_path"}
\* the calls that use the session
SessionSteps ==
    {"channel_session", "exec", "read_to_string", "wait_close", "exit_status",
     "scp_recv", "read_to_end", "send_eof", "wait_eof", "close", "scp_send",
     "remote_write_all", "sftp", "stat", "transfer"}

Call(step, ok) == [step |-> step, ok |-> ok]

\* a connection step whose failure is passed over
step_failed_goes_on(d, step) == [d EXCEPT !.i = @ + 1, !.log = Append(@, Call(step, FALSE))]

\* `?`: the error of the call ends execute
step_failed(d, step) ==
    [d EXCEPT !.pc = "done", !.st = "Err", !.cause = step, !.log = Append(@, Call(step, FALSE))]

\* the file at local_path after a step succeeded: File::create empties it,
\* write_all fills it; the transfer of a download by SFTP leaves the remote
\* file's content or a directory there (ssh.rs:327-362)
local_after(d, step) ==
    CASE step = "file_create" -> ""
      [] step = "write_all" -> d.contents
      [] step = "transfer" /\ d.kind = "sftp-download" ->
            IF d.remote = "file" THEN "remote" ELSE "directory"
      [] OTHER -> d.local

\* the steps that cannot succeed: File::open of a file that is not there
\* (ssh.rs:245), a download by SFTP onto a local file (328-332, 357)
step_refused(d, step) ==
    \/ step = "file_open" /\ d.local = "absent"
    \/ step = "transfer" /\ d.kind = "sftp-download" /\ d.local # "absent"

\* what a failed step may leave at local_path.  The transfer of a download
\* by SFTP is many calls: of a remote directory create_dir, then readdir and
\* the entries (ssh.rs:358-362, 384-400), of a remote file open, read,
\* File::create and write_all (405-423); one that fails after create_dir
\* leaves the directory, one that fails at write_all the part of the file
\* that was written, which may be nothing.  The write_all of a download by
\* SCP (ssh.rs:195) does the same to the file File::create has emptied.
\* Every other step that fails leaves the path as it is.
local_after_failure(d, step) ==
    IF step = "transfer" /\ d.kind = "sftp-download" /\ ~step_refused(d, step)
    THEN IF d.remote = "file" THEN {d.local, "", "part"} ELSE {d.local, "directory"}
    ELSE IF step = "write_all" THEN {d.local, "part"}
    ELSE {d.local}

\* ssh.rs:466-471: an upload by SFTP looks at the local path first
RemStart ==
    /\ ssh.pc = "start"
    /\ ssh' = IF ssh.kind = "sftp-upload" /\ ssh.local = "absent"
              THEN step_failed(ssh, "local_path")
              ELSE [ssh EXCEPT !.pc = "connect", !.i = 1]
    /\ UNCHANGED <<renderVars, execVars, drv, shell, par, shown, sftp>>

\* connect_ssh (ssh.rs:10-23), one call
RemConnect ==
    /\ ssh.pc = "connect"
    /\ \E ok \in BOOLEAN :
          LET step == connect_ssh[ssh.i]
              d == IF ok THEN [ssh EXCEPT !.i = @ + 1, !.log = Append(@, Call(step, TRUE))]
                   ELSE step_failed(ssh, step)
          IN ssh' = IF d.pc = "connect" /\ d.i > Len(connect_ssh)
                    THEN [d EXCEPT !.pc = "steps", !.i = 1]
                    ELSE d
    /\ UNCHANGED <<renderVars, execVars, drv, shell, par, shown, sftp>>

\* the next call of execute after the connection
RemStep ==
    /\ ssh.pc = "steps" /\ ssh.i <= Len(steps_of(ssh.kind, ssh.commands))
    /\ \E ok \in BOOLEAN :
          LET step == steps_of(ssh.kind, ssh.commands)[ssh.i] IN
          IF ok /\ ~step_refused(ssh, step)
          THEN ssh' = [ssh EXCEPT !.i = @ + 1, !.log = Append(@, Call(step, TRUE)),
                                  !.local = local_after(ssh, step),
                                  !.contents = IF step = "read_to_end" THEN "remote" ELSE @]
          ELSE \E local \in local_after_failure(ssh, step) :
                  ssh' = [step_failed(ssh, step) EXCEPT !.local = local]
    /\ UNCHANGED <<renderVars, execVars, drv, shell, par, shown, sftp>>

\* Ok(()) at the end of execute
RemReturn ==
    /\ ssh.pc = "steps" /\ ssh.i > Len(steps_of(ssh.kind, ssh.commands))
    /\ ssh' = [ssh EXCEPT !.pc = "done", !.st = "Ok"]
    /\ UNCHANGED <<renderVars, execVars, drv, shell, par, shown, sftp>>

RemoteTaskKinds == {"ssh", "scp-download", "scp-upload", "sftp-download", "sftp-upload"}

InitRemote ==
    /\ \E kind \in RemoteTaskKinds, n \in 0..MaxBatch, local \in {"absent", "old"},
          remote \in {"file", "dir"} :
          /\ kind = "ssh" \/ n = 0
          /\ kind = "sftp-download" \/ remote = "file"
          /\ ssh = [pc |-> "start", kind |-> kind, commands |-> n, i |-> 0, remote |-> remote,
                    log |-> <<>>, local0 |-> local, local |-> local, contents |-> "",
                    st |-> "None", cause |-> ""]
    /\ shell = Idle /\ par = Idle /\ shown = Idle /\ sftp = Idle /\ drv = Idle
    /\ RenderIdle
    /\ ExecIdle

NextRemote == RemStart \/ RemConnect \/ RemStep \/ RemReturn

SpecRemote == InitRemote /\ [][NextRemote]_vars

\* the places of a call in the log
Calls(step) == {n \in 1..Len(ssh.log) : ssh.log[n].step = step}
\* the call was made and succeeded before the n-th call
DoneBefore(step, n) == \E h \in 1..(n - 1) : ssh.log[h] = Call(step, TRUE)

\* C27: an invocation of a remote task makes the TCP connection, the
\* handshake and the password authentication once each at most and in this
\* order, uses the session only after all three succeeded, and ends with an
\* error at the first call that fails: no call follows a failed one.
C27_ConnectOnceInOrderNoRetry ==
    /\ \A step \in {"tcp_connect", "handshake", "userauth_password"} :
          Cardinality(Calls(step)) <= 1
    /\ \A n \in Calls("handshake") : DoneBefore("tcp_connect", n)
    /\ \A n \in Calls("userauth_password") : DoneBefore("handshake", n)
    /\ \A n \in 1..Len(ssh.log) :
          /\ ssh.log[n].step \in SessionSteps =>
                /\ DoneBefore("tcp_connect", n)
                /\ DoneBefore("handshake", n)
                /\ DoneBefore("userauth_password", n)
          /\ ~ssh.log[n].ok =>
                /\ n = Len(ssh.log)
                /\ ssh.pc = "done" /\ ssh.st = "Err" /\ ssh.cause = ssh.log[n].step

\* an ssh task connected, ran its first command on the session and ended
\* with the error of the channel of its second command
C27_Witness ==
    /\ ssh.kind = "ssh" /\ ssh.pc = "done" /\ ssh.st = "Err"
    /\ ssh.cause = "channel_session"
    /\ Cardinality(Calls("channel_session")) = 2
    /\ Cardinality(Calls("userauth_password")) = 1

\* the calls of a download that must have succeeded before the local file
RemoteSide == {"scp_recv", "read_to_end", "send_eof", "wait_eof", "close", "wait_close"}

\* C28: a download by SCP creates or truncates the local file only after the
\* remote file was read to its end and the end-of-file and close calls of
\* the channel all succeeded; when the connection, the request, the read or
\* one of those calls fails the local path is as it was before the task.
C28_LocalFileOnlyAfterChannelClosed ==
    ssh.kind = "scp-download" =>
        /\ \A n \in Calls("file_create") : \A step \in RemoteSide : DoneBefore(step, n)
        /\ Calls("file_create") = {} => ssh.local = ssh.local0
        /\ ssh.st = "Err" /\ ssh.cause \notin {"file_create", "write_all"} =>
              ssh.local = ssh.local0

\* the download replaced an existing local file by the remote content
C28_Witness ==
    /\ ssh.kind = "scp-download" /\ ssh.pc = "done" /\ ssh.st = "Ok"
    /\ ssh.local0 = "old" /\ ssh.local = "remote"

====
